---- MODULE Spec2Model ----
(***************************************************************************)
(* SkedAI: the conversational booking agent (backend/app/booking_agent.py),*)
(* the calendar service it drives (backend/app/calendar_service.py) and    *)
(* the HTTP routes that serve one process-wide agent (backend/app/         *)
(* routes.py).                                                             *)
(*                                                                         *)
(* Time.  Every instant is a number of seconds since Monday 00:00 of the   *)
(* first modelled week, in the user's zone (Asia/Kolkata has no DST); the  *)
(* wall clock `clock` (time.time(), datetime.now()) counts from the same   *)
(* origin.  Durations are minutes, as in the program.                      *)
(*                                                                         *)
(* Optional values.  Python's None is the empty sequence, a present value  *)
(* v is <<v>>.                                                             *)
(***************************************************************************)
EXTENDS Integers, Sequences, FiniteSets, TLC

VARIABLES
    clock,              \* time.time(), seconds
    calendar,           \* the backend's events (Google Calendar)
    events_cache,       \* EnhancedCalendarService._events_cache
    cache_expiry,       \* EnhancedCalendarService._cache_expiry
    cache_meta,         \* ghost: per cache key, the range it covers and whether
                        \* a later mutation of that range left it stale
    context,            \* AdvancedBookingAgent.context (ConversationContext)
    pc,                 \* per worker thread: position inside run()
    frame,              \* per worker thread: the locals of run()
    turns,              \* ghost: number of run() calls started so far
    last_request_times, \* routes._last_request_times
    _agent_instance,    \* routes._agent_instance
    _agent_error,       \* routes._agent_error
    obs                 \* ghost: what the last completed operation did

svcVars   == <<calendar, events_cache, cache_expiry, cache_meta>>
agentVars == <<context, pc, frame, turns>>
routeAgent == <<_agent_instance, _agent_error>>
vars == <<clock, calendar, events_cache, cache_expiry, cache_meta,
          context, pc, frame, turns, last_request_times,
          _agent_instance, _agent_error, obs>>

-----------------------------------------------------------------------------
(* Values *)

None == <<>>
Some(v) == <<v>>
IsNone(o) == o = <<>>
Val(o) == o[1]

SecondsPerDay == 24 * 3600
\* timedelta(minutes=n), timedelta(hours=n), timedelta(days=n)
Minutes(n) == n * 60
Hours(n) == n * 3600
Days(n) == n * SecondsPerDay
At(day, hh, mm) == Days(day) + Hours(hh) + Minutes(mm)
\* datetime.time() as seconds since midnight; a time(h, m) is Hours(h) + Minutes(m)
TimeOfDay(t) == t % SecondsPerDay
DayOf(t) == t \div SecondsPerDay
\* datetime.weekday(): Monday is 0
Weekday(t) == DayOf(t) % 7
\* datetime.replace(hour=, minute=): same date, same seconds, new hour and minute
ReplaceHourMinute(t, tod) == Days(DayOf(t)) + tod + (t % 60)
\* datetime.replace(hour=, minute=, second=0, microsecond=0)
ReplaceHourMinuteSecond(t, tod) == Days(DayOf(t)) + tod

Max(a, b) == IF a >= b THEN a ELSE b

-----------------------------------------------------------------------------
(* Bounds of the model *)

\* the wall clock advances in steps of TickSeconds up to MaxClock
TickSeconds == 150
MaxClock == 300
\* events on the calendar at one time
MaxEvents == 2
\* the upcoming_events entries the cache may hold
MaxLookups == 1
\* run() calls per behaviour
MaxTurns == 2
\* seconds that pass while the routes are served
MaxSeconds == 2

-----------------------------------------------------------------------------
(* User texts.                                                             *)
(*                                                                         *)
(* A text is the sequence of its lexemes, lower case, one space between    *)
(* two lexemes.  A lexeme is a word (letters only) or a numeral: one or    *)
(* two digits h, optionally ":" and two digits m, optionally "am"/"pm"     *)
(* glued to it ("45", "2pm", "10:00", "2:30pm").  The regular expressions  *)
(* of the program are matched on the lexemes; the word relations below     *)
(* list, for the words the model uses, which word ends with, begins with   *)
(* or holds which other one.                                               *)
(***************************************************************************)

W(str) == [k |-> "w", s |-> str, h |-> 0 - 1, m |-> 0 - 1, ap |-> ""]
Num(h, m, ap) == [k |-> "n", s |-> "", h |-> h, m |-> m, ap |-> ap]
NoMinute == 0 - 1

IsWord(tk) == tk.k = "w"
IsNumeral(tk) == tk.k = "n"
\* digits only
IsBare(tk) == IsNumeral(tk) /\ tk.m = NoMinute /\ tk.ap = ""

\* <<part, word>>: word properly ends with / begins with / holds part
Suffixes == {<<"in", "within">>, <<"in", "min">>, <<"at", "chat">>,
             <<"call", "recall">>}
Prefixes == {<<"hour", "hours">>, <<"hr", "hrs">>, <<"min", "mins">>,
             <<"min", "minutes">>, <<"minute", "minutes">>, <<"min", "minute">>,
             <<"meeting", "meetings">>, <<"week", "weeks">>,
             <<"m", "min">>, <<"m", "mins">>, <<"m", "minutes">>, <<"m", "minute">>,
             <<"m", "meeting">>, <<"m", "meetings">>, <<"m", "monday">>,
             <<"m", "my">>, <<"h", "hour">>, <<"h", "hours">>, <<"h", "hr">>,
             <<"h", "hrs">>, <<"h", "hello">>}
Infixes  == {<<"in", "mins">>, <<"in", "minute">>, <<"in", "minutes">>}

WordEnds(tk, part) == IsWord(tk) /\ (tk.s = part \/ <<part, tk.s>> \in Suffixes)
WordBegins(tk, part) == IsWord(tk) /\ (tk.s = part \/ <<part, tk.s>> \in Prefixes)
WordHolds(tk, part) ==
    IsWord(tk) /\ (tk.s = part \/ <<part, tk.s>> \in Suffixes \cup Prefixes \cup Infixes)

\* `part in text` for a part without a space
Mentions(text, part) == \E i \in 1..Len(text) : WordHolds(text[i], part)

\* the least index of a set of positions, 0 when there is none: re.search
\* returns the leftmost match
Leftmost(positions) ==
    IF positions = {} THEN 0 ELSE CHOOSE i \in positions : \A j \in positions : i <= j

\* (am|pm)? after the digits of the numeral at position i: glued to the
\* numeral, or, after \s*, at the start of the next lexeme
AmPmAt(text, i) ==
    IF text[i].ap # "" THEN text[i].ap
    ELSE IF i < Len(text) /\ WordBegins(text[i + 1], "am") THEN "am"
    ELSE IF i < Len(text) /\ WordBegins(text[i + 1], "pm") THEN "pm"
    ELSE ""

\* the groups of (\d{1,2}):?(\d{2})?\s*(am|pm)? on the numeral at position i
ClockGroups(text, i, word) ==
    [word |-> word, hour |-> text[i].h, minute |-> text[i].m, ampm |-> AmPmAt(text, i)]

NoMatch == [word |-> "", hour |-> 0 - 1, minute |-> NoMinute, ampm |-> "", none |-> TRUE]
Matched(groups) == [word |-> groups.word, hour |-> groups.hour,
                    minute |-> groups.minute, ampm |-> groups.ampm, none |-> FALSE]
Groups(word, n) == [word |-> word, hour |-> n, minute |-> NoMinute, ampm |-> ""]

\* (\d+)\s*(?:hour|hr)s?  and  (\d+)\s*(?:minute|min)s?
\* the digits that end a numeral, then a word beginning with the unit
EndsInDigits(tk) == IsNumeral(tk) /\ tk.ap = ""
TrailingDigits(tk) == IF tk.m = NoMinute THEN tk.h ELSE tk.m
MatchAmount(text, units) ==
    LET at == Leftmost({i \in 1..(Len(text) - 1) :
                  /\ EndsInDigits(text[i])
                  /\ \E u \in units : WordBegins(text[i + 1], u)})
    IN IF at = 0 THEN NoMatch ELSE Matched(Groups("", TrailingDigits(text[at])))

\* (\d+)\s*h\s*(\d+)\s*m
MatchHoursMinutes(text) ==
    LET at == Leftmost({i \in 1..(Len(text) - 3) :
                  /\ EndsInDigits(text[i])
                  /\ text[i + 1] = W("h")
                  /\ IsNumeral(text[i + 2]) /\ text[i + 2].m = NoMinute
                  /\ text[i + 2].ap = ""
                  /\ WordBegins(text[i + 3], "m")})
    IN IF at = 0 THEN NoMatch
       ELSE Matched([word |-> "", hour |-> TrailingDigits(text[at]),
                     minute |-> text[at + 2].h, ampm |-> ""])

\* in (\d+) (?:hour|hr)s?  and  in (\d+) (?:minute|min)s?
MatchIn(text, units) ==
    LET at == Leftmost({i \in 1..(Len(text) - 2) :
                  /\ WordEnds(text[i], "in")
                  /\ IsBare(text[i + 1])
                  /\ \E u \in units : WordBegins(text[i + 2], u)})
    IN IF at = 0 THEN NoMatch ELSE Matched(Groups("", text[at + 1].h))

\* tomorrow at (\d{1,2}):?(\d{2})?\s*(am|pm)?
MatchTomorrowAt(text) ==
    LET at == Leftmost({i \in 1..(Len(text) - 2) :
                  /\ WordEnds(text[i], "tomorrow")
                  /\ text[i + 1] = W("at")
                  /\ IsNumeral(text[i + 2])})
    IN IF at = 0 THEN NoMatch ELSE Matched(ClockGroups(text, at + 2, ""))

\* (\w+) next to a space: the word, or the word characters of a numeral
WordOf(tk) == IF IsWord(tk) THEN tk.s ELSE "digits"

\* next (\w+)
MatchNext(text) ==
    LET at == Leftmost({i \in 1..(Len(text) - 1) : WordEnds(text[i], "next")})
    IN IF at = 0 THEN NoMatch ELSE Matched(Groups(WordOf(text[at + 1]), 0 - 1))

\* (\w+) at (\d{1,2}):?(\d{2})?\s*(am|pm)?
MatchWordAt(text) ==
    LET at == Leftmost({i \in 1..(Len(text) - 2) :
                  /\ text[i + 1] = W("at")
                  /\ IsNumeral(text[i + 2])})
    IN IF at = 0 THEN NoMatch ELSE Matched(ClockGroups(text, at + 2, WordOf(text[at])))

\* at (\d{1,2}):?(\d{2})?\s*(am|pm)?
MatchAt(text) ==
    LET at == Leftmost({i \in 1..(Len(text) - 1) :
                  /\ WordEnds(text[i], "at")
                  /\ IsNumeral(text[i + 1])})
    IN IF at = 0 THEN NoMatch ELSE Matched(ClockGroups(text, at + 1, ""))

\* (\d{1,2}):?(\d{2})?\s*(am|pm)
MatchClockAmPm(text) ==
    LET at == Leftmost({i \in 1..Len(text) :
                  IsNumeral(text[i]) /\ AmPmAt(text, i) # ""})
    IN IF at = 0 THEN NoMatch ELSE Matched(ClockGroups(text, at, ""))

\* end of (?:the )?week  and  beginning of (?:the )?week
MatchOfWeek(text, first) ==
    LET at == Leftmost({i \in 1..(Len(text) - 2) :
                  /\ WordEnds(text[i], first)
                  /\ text[i + 1] = W("of")
                  /\ \/ WordBegins(text[i + 2], "week")
                     \/ /\ i + 3 <= Len(text)
                        /\ text[i + 2] = W("the")
                        /\ WordBegins(text[i + 3], "week")})
    IN IF at = 0 THEN NoMatch ELSE Matched(Groups("", 0 - 1))

\* next week same time
MatchNextWeekSameTime(text) ==
    LET at == Leftmost({i \in 1..(Len(text) - 3) :
                  /\ WordEnds(text[i], "next")
                  /\ text[i + 1] = W("week")
                  /\ text[i + 2] = W("same")
                  /\ WordBegins(text[i + 3], "time")})
    IN IF at = 0 THEN NoMatch ELSE Matched(Groups("", 0 - 1))

-----------------------------------------------------------------------------
(* Calendar service: cache keys *)

HexDigits == <<"0","1","2","3","4","5","6","7","8","9","a","b","c","d","e","f">>

RECURSIVE ToHex(_, _)
ToHex(n, width) ==
    IF width = 0 THEN <<>>
    ELSE Append(ToHex(n \div 16, width - 1), HexDigits[(n % 16) + 1])

MethodCode(method) ==
    CASE method = "check_availability" -> 12
      [] method = "upcoming_events" -> 7
      [] OTHER -> 0

\* _get_cache_key: hashlib.md5(f"{method}:{sorted(kwargs.items())}").hexdigest().
\* The two dictionaries are keyed by that digest.  MD5 is injective on the few
\* keys of a behaviour, so the model indexes the dictionaries by the hashed
\* data <<method, start, end>> and writes the digest out (HexDigest) wherever
\* the code reads a key as text.
_get_cache_key(method, start, end) == <<method, start, end>>

\* the key as the program holds it: 32 hexadecimal digits.  The digits stand in
\* for MD5's (an injective code of the hashed data, in base 16); as with MD5,
\* nothing of the method name survives in the key as text.
HexDigest(key) ==
    ToHex(MethodCode(key[1]), 20) \o ToHex(key[2], 6) \o ToHex(key[3], 6)

\* str.startswith
StartsWith(s, prefix) ==
    /\ Len(s) >= Len(prefix)
    /\ \A i \in 1..Len(prefix) : s[i] = prefix[i]

PrefixCheckAvailability ==
    <<"c","h","e","c","k","_","a","v","a","i","l","a","b","i","l","i","t","y">>
PrefixUpcomingEvents ==
    <<"u","p","c","o","m","i","n","g","_","e","v","e","n","t","s">>

\* _is_cache_valid
_is_cache_valid(S, key, clk) ==
    /\ key \in DOMAIN S.expiry
    /\ clk < S.expiry[key]

CacheDuration == 300

\* dict assignment d[k] = v
Put(f, k, v) == [x \in (DOMAIN f) \cup {k} |-> IF x = k THEN v ELSE f[x]]
\* dict.pop(k, None) for every k of ks
Drop(f, ks) == [x \in (DOMAIN f) \ ks |-> f[x]]

\* _set_cache; the ghost remembers the range [start, end) the entry answers for
_set_cache(S, key, data, clk, start, end) ==
    [S EXCEPT !.cache = Put(S.cache, key, data),
              !.expiry = Put(S.expiry, key, clk + CacheDuration),
              !.meta = Put(S.meta, key, [start |-> start, end |-> end, stale |-> FALSE])]

\* ghost: a mutation of [start, end) makes every entry still cached for an
\* overlapping range stale
MarkStale(S, start, end) ==
    [S EXCEPT !.meta = [k \in DOMAIN S.meta |->
        IF k \in DOMAIN S.cache /\ S.meta[k].start < end /\ start < S.meta[k].end
        THEN [S.meta[k] EXCEPT !.stale = TRUE] ELSE S.meta[k]]]

\* _clear_cache_for_timerange: removes the keys that start with the method
\* names; the keys are MD5 digests
_clear_cache_for_timerange(S, start_time, end_time) ==
    LET keys_to_remove == {key \in DOMAIN S.cache :
            \/ StartsWith(HexDigest(key), PrefixCheckAvailability)
            \/ StartsWith(HexDigest(key), PrefixUpcomingEvents)}
    IN [S EXCEPT !.cache = Drop(S.cache, keys_to_remove),
                 !.expiry = Drop(S.expiry, keys_to_remove \cap DOMAIN S.expiry),
                 !.meta = Drop(S.meta, keys_to_remove \cap DOMAIN S.meta)]

\* _clear_all_caches
_clear_all_caches(S) ==
    [S EXCEPT !.cache = <<>>, !.expiry = <<>>, !.meta = <<>>]

-----------------------------------------------------------------------------
(* Calendar service: the operations.                                       *)
(*                                                                         *)
(* An operation takes the service state S = [cal, cache, expiry, meta,      *)
(* log] and gives the state after it together with its return value. *)
(* `fail` is the set of backend requests that raise during the operation   *)
(* ("list", "insert", "get", "delete", "update").  `log` is a ghost: the   *)
(* collaborator calls made, in order.                                      *)
(* _rate_limit only sleeps between backend requests and is left out.       *)
(***************************************************************************)

Logged(S, entry) == [S EXCEPT !.log = Append(S.log, entry)]

\* service.events().list(timeMin, timeMax, singleEvents): the events that end
\* after timeMin and start before timeMax; deleted events are not returned
BackendList(cal, timeMin, timeMax) ==
    {e \in cal : e.end > timeMin /\ e.start < timeMax}

\* service.events().insert: the backend names the event; ids are opaque to the
\* program, the model takes the least id no event on the calendar has
NewEventId(cal) ==
    CHOOSE n \in 1..(Cardinality(cal) + 1) :
        /\ \A e \in cal : e.id # n
        /\ \A m \in 1..(n - 1) : \E e \in cal : e.id = m

\* check_availability(start_time, duration_minutes, buffer_minutes).
\* duration_minutes is optional here because the agent passes on whatever the
\* oracle's JSON held: timedelta(minutes=None) raises inside the try.
check_availability(S, clk, start_time, duration_minutes, buffer_minutes, fail) ==
    IF IsNone(duration_minutes)
    THEN [S |-> Logged(S, [op |-> "check", start |-> start_time, dur |-> duration_minutes,
                           result |-> FALSE, hit |-> FALSE, stale |-> FALSE]),
          result |-> FALSE]
    ELSE
    LET buffer_delta == Minutes(buffer_minutes)
        check_start == start_time - buffer_delta
        end_time == start_time + Minutes(Val(duration_minutes))
        check_end == end_time + buffer_delta
        cache_key == _get_cache_key("check_availability", check_start, check_end)
        entry(res, hit, st) == [op |-> "check", start |-> start_time,
                                dur |-> duration_minutes, result |-> res,
                                hit |-> hit, stale |-> st]
    IN  IF _is_cache_valid(S, cache_key, clk)
        THEN [S |-> Logged(S, entry(S.cache[cache_key], TRUE, S.meta[cache_key].stale)),
              result |-> S.cache[cache_key]]
        ELSE IF "list" \in fail
        THEN [S |-> Logged(S, entry(FALSE, FALSE, FALSE)), result |-> FALSE]
        ELSE LET active_events == BackendList(S.cal, check_start, check_end)
                 is_available == active_events = {}
             IN [S |-> Logged(_set_cache(S, cache_key, is_available, clk,
                                         check_start, check_end),
                              entry(is_available, FALSE, FALSE)),
                 result |-> is_available]

\* create_event(summary, start_time, duration_minutes, description).
\* has_zone: the datetime's tzinfo is a pytz zone (it has .zone); a tzinfo
\* parsed from a UTC offset has none and start_time.tzinfo.zone raises.
\* The return value is a message; ok tells the success message from the
\* two "Failed to create event" ones.
create_event(S, clk, summary, start_time, has_zone, duration_minutes, fail) ==
    LET entry(ok) == [op |-> "create", start |-> start_time, dur |-> duration_minutes,
                      result |-> ok, hit |-> FALSE, stale |-> FALSE]
    IN  IF IsNone(duration_minutes) \/ ~has_zone \/ "insert" \in fail
        THEN [S |-> Logged(S, entry(FALSE)), ok |-> FALSE]
        ELSE LET end_time == start_time + Minutes(Val(duration_minutes))
                 created_event == [id |-> NewEventId(S.cal), summary |-> summary,
                                   start |-> start_time, end |-> end_time]
                 S1 == [S EXCEPT !.cal = S.cal \cup {created_event}]
                 S2 == _clear_cache_for_timerange(S1, start_time, end_time)
             IN [S |-> Logged(MarkStale(S2, start_time, end_time), entry(TRUE)),
                 ok |-> TRUE]

\* the events of `es` as a sequence, soonest first (orderBy='startTime'; events
\* that start together come in id order)
RECURSIVE ByStartTime(_)
ByStartTime(es) ==
    IF es = {} THEN <<>>
    ELSE LET first == CHOOSE e \in es : \A o \in es :
                          e.start < o.start \/ (e.start = o.start /\ e.id <= o.id)
         IN <<first>> \o ByStartTime(es \ {first})

Take(seq, n) == SubSeq(seq, 1, IF Len(seq) < n THEN Len(seq) ELSE n)

\* datetime.now() is read to the microsecond, so no two calls read the same
\* instant: the model writes the instant of a call as its second followed by
\* the number of upcoming_events entries the cache holds, which no entry in
\* the cache carries
Instant(S, clk) ==
    clk * (MaxLookups + 2)
        + Cardinality({key \in DOMAIN S.cache : key[1] = "upcoming_events"})

\* get_upcoming_events from the cache lookup on
UpcomingFrom(S, clk, cache_key, now, future_time, limit, fail) ==
    LET entry(ok) == [op |-> "upcoming", start |-> now, dur |-> None, result |-> ok,
                      hit |-> FALSE, stale |-> FALSE]
    IN  IF _is_cache_valid(S, cache_key, clk)
        THEN [S |-> Logged(S, [entry(TRUE) EXCEPT !.hit = TRUE]),
              events |-> S.cache[cache_key]]
        ELSE IF "list" \in fail
        THEN [S |-> Logged(S, entry(FALSE)), events |-> <<>>]
        ELSE LET formatted_events ==
                     Take(ByStartTime(BackendList(S.cal, now, future_time)), limit)
             IN [S |-> Logged(_set_cache(S, cache_key, formatted_events, clk,
                                         now, future_time),
                              entry(TRUE)),
                 events |-> formatted_events]

\* get_upcoming_events(limit, days_ahead).  The cache key is made of the limit
\* and of now() and now() + days_ahead, both to the microsecond: every call
\* that reaches the backend stores an entry no later call looks up.
get_upcoming_events(S, clk, limit, days_ahead, fail) ==
    UpcomingFrom(S, clk,
                 _get_cache_key("upcoming_events", Instant(S, clk),
                                clk + Days(days_ahead)),
                 clk, clk + Days(days_ahead), limit, fail)

\* get_busy_times(start_time, end_time): the (start, end) pairs of the events
\* in the range, soonest first; nothing is cached
get_busy_times(S, start_time, end_time, fail) ==
    LET entry(ok) == [op |-> "busy", start |-> start_time, dur |-> None, result |-> ok,
                      hit |-> FALSE, stale |-> FALSE]
        events == ByStartTime(BackendList(S.cal, start_time, end_time))
    IN  IF "list" \in fail
        THEN [S |-> Logged(S, entry(FALSE)), busy_times |-> <<>>]
        ELSE [S |-> Logged(S, entry(TRUE)),
              busy_times |-> [i \in DOMAIN events |-> <<events[i].start, events[i].end>>]]

\* strftime('%I:%M %p').lower(): "hh:mm am" as hour (1..12), minute, am/pm
ClockText(t) ==
    LET h == TimeOfDay(t) \div 3600
    IN [hour |-> IF h % 12 = 0 THEN 12 ELSE h % 12,
        minute |-> (TimeOfDay(t) \div 60) % 60,
        ampm |-> IF h < 12 THEN "am" ELSE "pm"]

\* str.lower() of a summary, as lexemes.  No summary of the model holds a digit.
SummaryText(str) ==
    CASE str = "Meeting" -> <<W("meeting")>>
      [] str = "Call" -> <<W("call")>>
      [] str = "Interview" -> <<W("interview")>>
      [] str = "Appointment" -> <<W("appointment")>>
      [] str = "Standup" -> <<W("standup")>>
      [] str = "Team Meeting" -> <<W("team"), W("meeting")>>
      [] str = "Untitled Meeting" -> <<W("untitled"), W("meeting")>>
      [] OTHER -> <<W(str)>>

\* A meeting reference is the text a pattern of _extract_meeting_reference
\* matched: a clock ("10:00", "10:00 am", "10:00am") or a run of words
ClockRef(hour, minute, ampm, glued) ==
    [kind |-> "clock", words |-> <<>>, hour |-> hour, minute |-> minute,
     ampm |-> ampm, glued |-> glued]
WordsRef(words) ==
    [kind |-> "words", words |-> words, hour |-> 0 - 1, minute |-> 0 - 1,
     ampm |-> "", glued |-> FALSE]

\* `reference_text in summary.lower()`: the reference's first word may end a
\* word of the summary and its last word may begin one
InSummary(ref, summary) ==
    /\ ref.kind = "words"
    /\ LET n == Len(ref.words)
       IN \E j \in 1..(Len(summary) - n + 1) :
            IF n = 1 THEN WordHolds(summary[j], ref.words[1].s)
            ELSE /\ WordEnds(summary[j], ref.words[1].s)
                 /\ WordBegins(summary[j + n - 1], ref.words[n].s)
                 /\ \A i \in 2..(n - 1) : summary[j + i - 1] = ref.words[i]

\* `reference_text in start_time.strftime('%I:%M %p').lower()`: "h:mm" is found
\* in "hh:mm xm" when the minutes agree and hh ends with h; a following
\* " am"/" pm" must agree too, and one glued to the digits ("10:00am") is
\* never found
InClockText(ref, written) ==
    /\ ref.kind = "clock"
    /\ ref.minute = written.minute
    /\ IF ref.hour >= 10 THEN ref.hour = written.hour ELSE written.hour % 10 = ref.hour
    /\ ~ref.glued
    /\ ref.ampm \in {"", written.ampm}

\* event.get('summary', 'Untitled Meeting')
SummaryOf(event) == IF IsNone(event.summary) THEN "Untitled Meeting" ELSE Val(event.summary)

\* the loop of _find_event_by_reference: the first of recent_events whose
\* lower-cased summary, or whose start written '%I:%M %p', holds the text
FirstMatch(recent_events, reference_text) ==
    LET matches(event) == \/ InSummary(reference_text, SummaryText(SummaryOf(event)))
                          \/ InClockText(reference_text, ClockText(event.start))
        at == Leftmost({i \in 1..Len(recent_events) : matches(recent_events[i])})
    IN IF at = 0 THEN None ELSE Some(recent_events[at])

\* what _find_event_by_reference returns, given what get_upcoming_events did
FoundIn(got, reference) == [S |-> got.S, event |-> FirstMatch(got.events, reference)]

\* _find_event_by_reference: looks among the upcoming events (7 days, at most
\* 50)
_find_event_by_reference(S, clk, reference, fail) ==
    FoundIn(get_upcoming_events(S, clk, 50, 7, fail), reference)

\* cancel_event from the lookup on
CancelFound(found, fail) ==
    LET entry(ok) == [op |-> "cancel", start |-> 0, dur |-> None, result |-> ok,
                      hit |-> FALSE, stale |-> FALSE]
    IN  IF IsNone(found.event) \/ "delete" \in fail
        THEN [S |-> Logged(found.S, entry(FALSE)), result |-> FALSE]
        ELSE LET ev == Val(found.event)
                 S1 == [found.S EXCEPT !.cal = found.S.cal \ {ev}]
                 S2 == _clear_all_caches(S1)
             IN [S |-> Logged(MarkStale(S2, ev.start, ev.end), entry(TRUE)),
                 result |-> TRUE]

\* cancel_event(event_reference)
cancel_event(S, clk, event_reference, fail) ==
    CancelFound(_find_event_by_reference(S, clk, event_reference, fail), fail)

\* reschedule_event from the lookup on
RescheduleFound(found, new_start_time, has_zone, new_duration, fail) ==
    LET entry(ok) == [op |-> "reschedule", start |-> new_start_time, dur |-> new_duration,
                      result |-> ok, hit |-> FALSE, stale |-> FALSE]
    IN  IF \/ IsNone(found.event)
           \/ "get" \in fail
           \/ ~has_zone
           \/ "update" \in fail
        THEN [S |-> Logged(found.S, entry(FALSE)), result |-> FALSE]
        ELSE LET existing_event == Val(found.event)
                 \* `if new_duration:` is false for None and for 0
                 new_end_time ==
                     IF ~IsNone(new_duration) /\ Val(new_duration) # 0
                     THEN new_start_time + Minutes(Val(new_duration))
                     ELSE new_start_time + (existing_event.end - existing_event.start)
                 updated_event == [existing_event EXCEPT !.start = new_start_time,
                                                         !.end = new_end_time]
                 S1 == [found.S EXCEPT
                          !.cal = (found.S.cal \ {existing_event}) \cup {updated_event}]
                 S2 == _clear_all_caches(S1)
                 S3 == MarkStale(S2, existing_event.start, existing_event.end)
             IN [S |-> Logged(MarkStale(S3, new_start_time, new_end_time), entry(TRUE)),
                 result |-> TRUE]

\* reschedule_event(event_reference, new_start_time, new_duration)
reschedule_event(S, clk, event_reference, new_start_time, has_zone, new_duration, fail) ==
    RescheduleFound(_find_event_by_reference(S, clk, event_reference, fail),
                    new_start_time, has_zone, new_duration, fail)

-----------------------------------------------------------------------------
(* Booking agent: time parsing.                                            *)
(*                                                                         *)
(* `ctx` is the ConversationContext, `clk` the wall clock; the clock is    *)
(* read in the user's time zone, so datetime.now(pytz.timezone(..)) is clk *)
(* and raises when the zone name is not one pytz knows.  A parser gives    *)
(* [raised, value]: whether it raised, and the datetime (or None) it       *)
(* returned.                                                               *)
(***************************************************************************)

\* pytz.timezone(name) knows the name
ValidTimezone(ctx) == ctx.user_timezone \in {"Asia/Kolkata"}

Returned(value) == [raised |-> FALSE, value |-> value]
Raised == [raised |-> TRUE, value |-> None]

\* the weekdays dictionary of _parse_next_weekday and _parse_weekday_time
WeekdayNames == <<{"monday", "mon"}, {"tuesday", "tue"}, {"wednesday", "wed"},
                  {"thursday", "thu"}, {"friday", "fri"}, {"saturday", "sat"},
                  {"sunday", "sun"}>>
IsWeekdayName(name) == \E i \in 1..7 : name \in WeekdayNames[i]
WeekdayNumber(name) == (CHOOSE i \in 1..7 : name \in WeekdayNames[i]) - 1

\* hour after the am/pm adjustment shared by the three clock parsers
AdjustedHour(m) ==
    IF m.ampm = "pm" /\ m.hour # 12 THEN m.hour + 12
    ELSE IF m.ampm = "am" /\ m.hour = 12 THEN 0
    ELSE m.hour
MinuteOf(m) == IF m.minute = NoMinute THEN 0 ELSE m.minute
\* datetime.replace(hour=, minute=) raises ValueError outside 0..23, 0..59
ValidClock(hour, minute) == hour \in 0..23 /\ minute \in 0..59

_parse_tomorrow_time(ctx, clk, m) ==
    LET hour == AdjustedHour(m)
        minute == MinuteOf(m)
        tomorrow == clk + Days(1)
    IN IF ~ValidTimezone(ctx) \/ ~ValidClock(hour, minute) THEN Raised
       ELSE Returned(Some(ReplaceHourMinuteSecond(tomorrow, Hours(hour) + Minutes(minute))))

_parse_today_time(ctx, clk, m) ==
    LET hour == AdjustedHour(m)
        minute == MinuteOf(m)
        today == clk
        target_time == ReplaceHourMinuteSecond(today, Hours(hour) + Minutes(minute))
    IN IF ~ValidTimezone(ctx) \/ ~ValidClock(hour, minute) THEN Raised
       ELSE Returned(Some(IF target_time <= today THEN target_time + Days(1)
                          ELSE target_time))

\* a parser that stays on today when the weekday is today's
ParseNextSameDay(ctx, clk, m) ==
    LET weekday_name == m.word
        now == clk
        diff == WeekdayNumber(weekday_name) - Weekday(now)
        days_ahead == IF diff < 0 THEN diff + 7 ELSE diff
        target_date == now + Days(days_ahead)
    IN IF ~IsWeekdayName(weekday_name) THEN Returned(None)
       ELSE IF ~ValidTimezone(ctx) THEN Raised
       ELSE Returned(Some(ReplaceHourMinuteSecond(target_date, ctx.business_hours_start)))

_parse_next_weekday(ctx, clk, m) ==
    LET weekday_name == m.word
        now == clk
        diff == WeekdayNumber(weekday_name) - Weekday(now)
        days_ahead == IF diff <= 0 THEN diff + 7 ELSE diff
        target_date == now + Days(days_ahead)
    IN IF ~IsWeekdayName(weekday_name) THEN Returned(None)
       ELSE IF ~ValidTimezone(ctx) THEN Raised
       ELSE Returned(Some(ReplaceHourMinuteSecond(target_date, ctx.business_hours_start)))

\* a parser that stays on today whenever the weekday is today's
ParseWeekdaySameDay(ctx, clk, m) ==
    LET weekday_name == m.word
        hour == AdjustedHour(m)
        minute == MinuteOf(m)
        now == clk
        diff == WeekdayNumber(weekday_name) - Weekday(now)
        days_ahead == IF diff < 0 THEN diff + 7 ELSE diff
        target_date == now + Days(days_ahead)
    IN IF ~IsWeekdayName(weekday_name) THEN Returned(None)
       ELSE IF ~ValidTimezone(ctx) \/ ~ValidClock(hour, minute) THEN Raised
       ELSE Returned(Some(ReplaceHourMinuteSecond(target_date,
                                                  Hours(hour) + Minutes(minute))))

_parse_weekday_time(ctx, clk, m) ==
    LET weekday_name == m.word
        hour == AdjustedHour(m)
        minute == MinuteOf(m)
        now == clk
        diff == WeekdayNumber(weekday_name) - Weekday(now)
        target_time == ReplaceHourMinuteSecond(now, Hours(hour) + Minutes(minute))
        days_ahead == IF diff < 0 THEN diff + 7
                      ELSE IF diff = 0 /\ target_time <= now THEN 7
                      ELSE diff
        target_date == now + Days(days_ahead)
    IN IF ~IsWeekdayName(weekday_name) THEN Returned(None)
       ELSE IF ~ValidTimezone(ctx) \/ ~ValidClock(hour, minute) THEN Raised
       ELSE Returned(Some(ReplaceHourMinuteSecond(target_date,
                                                  Hours(hour) + Minutes(minute))))

_get_end_of_week(ctx, clk) ==
    LET now == clk
        diff == 4 - Weekday(now)
        days_until_friday == IF diff < 0 THEN diff + 7 ELSE diff
        friday == now + Days(days_until_friday)
    IN IF ~ValidTimezone(ctx) THEN Raised
       ELSE Returned(Some(ReplaceHourMinuteSecond(friday, ctx.business_hours_end)))

_get_beginning_of_week(ctx, clk) ==
    LET now == clk
        days_until_monday == 7 - Weekday(now)
        monday == now + Days(days_until_monday)
    IN IF ~ValidTimezone(ctx) THEN Raised
       ELSE Returned(Some(ReplaceHourMinuteSecond(monday, ctx.business_hours_start)))

\* the ten (pattern, parser) pairs of _parse_time_advanced, in order: the
\* match of pattern i on the text and what its parser does with it
PatternCount == 10
PatternMatch(text, i) ==
    CASE i = 1 -> MatchIn(text, {"hour", "hr"})
      [] i = 2 -> MatchIn(text, {"minute", "min"})
      [] i = 3 -> MatchTomorrowAt(text)
      [] i = 4 -> MatchNext(text)
      [] i = 5 -> MatchWordAt(text)
      [] i = 6 -> MatchAt(text)
      [] i = 7 -> MatchClockAmPm(text)
      [] i = 8 -> MatchOfWeek(text, "end")
      [] i = 9 -> MatchOfWeek(text, "beginning")
      [] OTHER -> MatchNextWeekSameTime(text)
PatternParser(ctx, clk, i, m) ==
    CASE i = 1 -> Returned(Some(clk + Hours(m.hour)))
      [] i = 2 -> Returned(Some(clk + Minutes(m.hour)))
      [] i = 3 -> _parse_tomorrow_time(ctx, clk, m)
      [] i = 4 -> _parse_next_weekday(ctx, clk, m)
      [] i = 5 -> _parse_weekday_time(ctx, clk, m)
      [] i = 6 -> _parse_today_time(ctx, clk, m)
      [] i = 7 -> _parse_today_time(ctx, clk, m)
      [] i = 8 -> _get_end_of_week(ctx, clk)
      [] i = 9 -> _get_beginning_of_week(ctx, clk)
      [] OTHER -> Returned(Some(clk + Days(7)))

\* _parse_time_advanced: the first pattern that matches and whose parser does
\* not raise decides, even when the parser returns None; a parser that raises
\* passes the turn to the next pattern
_parse_time_advanced(ctx, clk, user_input) ==
    LET decides(i) == /\ ~PatternMatch(user_input, i).none
                      /\ ~PatternParser(ctx, clk, i, PatternMatch(user_input, i)).raised
        first == Leftmost({i \in 1..PatternCount : decides(i)})
    IN IF ~ValidTimezone(ctx) THEN Raised
       ELSE IF first = 0 THEN Returned(None)
       ELSE PatternParser(ctx, clk, first, PatternMatch(user_input, first))

-----------------------------------------------------------------------------
(* Booking agent: the oracle and what is extracted from a turn.            *)
(*                                                                         *)
(* The oracle's answers of a turn are an input of the turn:                *)
(*   intent     the classification reply, trimmed and lower-cased, or      *)
(*              "error" when the call raises;                              *)
(*   extraction the extraction reply: kind "error" (the call raises),      *)
(*              "not_json", "not_object" (JSON, but no object) or "json",  *)
(*              and for "json" its members: <<>> absent, <<"null">>,       *)
(*              <<"v", x>>; start_time is <<"iso", t>> (no offset),        *)
(*              <<"iso_offset", t>> or <<"text">> (not a date);            *)
(*   respond    "ok" or "error" for the response-generation call.          *)
(***************************************************************************)

Request(summary, start_time, has_zone, duration, flexibility) ==
    [summary |-> summary, start_time |-> start_time, has_zone |-> has_zone,
     duration |-> duration, flexibility |-> flexibility]

\* replies of the extraction call
Json(summary, start_time, duration_minutes, flexibility) ==
    [kind |-> "json", summary |-> summary, start_time |-> start_time,
     duration_minutes |-> duration_minutes, flexibility |-> flexibility]
NoJson(kind) ==
    [kind |-> kind, summary |-> <<>>, start_time |-> <<>>, duration_minutes |-> <<>>,
     flexibility |-> <<>>]
Oracle(intent, extraction, respond) ==
    [intent |-> intent, extraction |-> extraction, respond |-> respond]
\* the input of a turn: the text (its place in Texts), the oracle's answers and
\* the backend requests that fail during it
Turn(user_input, oracle, fail) ==
    [user_input |-> user_input, oracle |-> oracle, fail |-> fail]

\* pending_booking values: the request's __dict__ that _handle_booking_request
\* stores and the dictionary _handle_reschedule_meeting stores
PendingRequest(request) ==
    [action |-> "", request |-> request, meeting |-> WordsRef(<<>>)]
PendingReschedule(meeting) ==
    [action |-> "reschedule", request |-> Request(None, None, FALSE, None, ""),
     meeting |-> meeting]
\* json.dumps raises TypeError on the Intent member and the datetimes of a
\* stored request; the reschedule dictionary holds strings only
JsonSerializable(pending_booking) ==
    IsNone(pending_booking) \/ Val(pending_booking).action = "reschedule"

\* class Intent(Enum): the members, by their values
Intent == {"book_meeting", "check_availability", "reschedule_meeting",
           "cancel_meeting", "list_meetings", "greeting", "unclear"}
\* the values of the Intent members, letter by letter: the keys of intent_mapping
Spelling ==
    [ book_meeting |-> <<"b", "o", "o", "k", "_", "m", "e", "e", "t", "i", "n", "g">>,
      check_availability |-> <<"c", "h", "e", "c", "k", "_", "a", "v", "a", "i", "l", "a", "b", "i", "l", "i", "t", "y">>,
      reschedule_meeting |-> <<"r", "e", "s", "c", "h", "e", "d", "u", "l", "e", "_", "m", "e", "e", "t", "i", "n", "g">>,
      cancel_meeting |-> <<"c", "a", "n", "c", "e", "l", "_", "m", "e", "e", "t", "i", "n", "g">>,
      list_meetings |-> <<"l", "i", "s", "t", "_", "m", "e", "e", "t", "i", "n", "g", "s">>,
      greeting |-> <<"g", "r", "e", "e", "t", "i", "n", "g">>,
      unclear |-> <<"u", "n", "c", "l", "e", "a", "r">> ]

\* the intent call's outcome: the content of the oracle's reply, character by
\* character, or a failure of the call
Content(chars) == [kind |-> "content", chars |-> chars]
Failure == [kind |-> "error", chars |-> <<>>]

UpperCase == <<"A", "B", "C", "D", "E", "F", "G", "H", "I", "J", "K", "L", "M", "N", "O", "P", "Q", "R", "S", "T", "U", "V", "W", "X", "Y", "Z">>
LowerCase == <<"a", "b", "c", "d", "e", "f", "g", "h", "i", "j", "k", "l", "m", "n", "o", "p", "q", "r", "s", "t", "u", "v", "w", "x", "y", "z">>
IsSpace(c) == c \in {" ", "\n", "\t"}
\* str.strip()
RECURSIVE LStrip(_)
LStrip(s) == IF s # <<>> /\ IsSpace(Head(s)) THEN LStrip(Tail(s)) ELSE s
RECURSIVE RStrip(_)
RStrip(s) ==
    IF s # <<>> /\ IsSpace(s[Len(s)]) THEN RStrip(SubSeq(s, 1, Len(s) - 1)) ELSE s
Strip(s) == RStrip(LStrip(s))
\* a lowering that leaves the letters as they are
KeepCase(s) == s
\* str.lower()
Lower(s) ==
    [i \in DOMAIN s |->
        IF \E k \in DOMAIN UpperCase : UpperCase[k] = s[i]
        THEN LowerCase[CHOOSE k \in DOMAIN UpperCase : UpperCase[k] = s[i]]
        ELSE s[i]]
\* intent_result: .content.strip().lower(), as the key looked up in
\* intent_mapping; "other" stands for every text that is no key
IntentResult(raw) ==
    LET key == Lower(Strip(raw.chars))
    IN IF \E name \in DOMAIN Spelling : Spelling[name] = key
       THEN CHOOSE name \in DOMAIN Spelling : Spelling[name] = key
       ELSE "other"

\* _recognize_intent
_recognize_intent(reply) ==
    IF reply \in {"book_meeting", "check_availability", "reschedule_meeting",
                  "cancel_meeting", "list_meetings", "greeting", "unclear"}
    THEN reply ELSE "unclear"

\* _recognize_intent, from the call to the oracle on: a failure of the call is
\* caught and gives Intent.UNCLEAR
Recognize(raw) ==
    IF raw.kind = "error" THEN "unclear" ELSE _recognize_intent(IntentResult(raw))

\* a duration loop that tries the minutes before the hours
FallbackMinutesFirst(ctx, text) ==
    LET hours == MatchAmount(text, {"hour", "hr"})
        minutes == MatchAmount(text, {"minute", "min"})
        both == MatchHoursMinutes(text)
    IN IF ~minutes.none THEN minutes.hour
       ELSE IF ~hours.none THEN hours.hour * 60
       ELSE IF ~both.none THEN both.hour * 60 + both.minute
       ELSE ctx.preferred_meeting_duration

\* the duration loop of _fallback_parsing: the first of the three patterns
\* that matches decides
FallbackDuration(ctx, text) ==
    LET hours == MatchAmount(text, {"hour", "hr"})
        minutes == MatchAmount(text, {"minute", "min"})
        both == MatchHoursMinutes(text)
    IN IF ~hours.none THEN hours.hour * 60
       ELSE IF ~minutes.none THEN minutes.hour
       ELSE IF ~both.none THEN both.hour * 60 + both.minute
       ELSE ctx.preferred_meeting_duration

\* _fallback_parsing; it raises when _parse_time_advanced does
_fallback_parsing(ctx, clk, user_input) ==
    LET summary == IF Mentions(user_input, "interview") THEN "Interview"
                   ELSE IF Mentions(user_input, "call") THEN "Call"
                   ELSE IF Mentions(user_input, "appointment") THEN "Appointment"
                   ELSE IF Mentions(user_input, "standup") THEN "Standup"
                   ELSE "Meeting"
        duration == FallbackDuration(ctx, user_input)
        start_time == _parse_time_advanced(ctx, clk, user_input)
        flexibility == IF \E word \in {"flexible", "around", "roughly"} :
                              Mentions(user_input, word)
                       THEN "flexible" ELSE "rigid"
    IN [raised |-> start_time.raised,
        request |-> Request(Some(summary), start_time.value, TRUE, Some(duration),
                            flexibility),
        asked |-> FALSE, fallback |-> TRUE]

\* details.get(name, default) for a member of the reply
Member(m, default) ==
    IF m = <<>> THEN Some(default) ELSE IF m[1] = "null" THEN None ELSE Some(m[2])

\* an extraction that falls back whenever the reply's start_time is no date
ExtractOrFallBack(ctx, clk, user_input, reply) ==
    LET fallback == _fallback_parsing(ctx, clk, user_input)
        called(r) == [r EXCEPT !.asked = TRUE]
        st == reply.start_time
        parsed == st # <<>> /\ st[1] \in {"iso", "iso_offset"}
        start_time == IF parsed THEN Some(st[2]) ELSE None
        flexibility == Member(reply.flexibility, "rigid")
    IN IF ~ValidTimezone(ctx) \/ ~JsonSerializable(ctx.pending_booking) THEN fallback
       ELSE IF reply.kind \in {"error", "not_json", "not_object"} \/ st = <<"text">>
       THEN called(fallback)
       ELSE [raised |-> FALSE,
             request |-> Request(Member(reply.summary, "Meeting"), start_time,
                                 parsed /\ st[1] = "iso",
                                 Member(reply.duration_minutes,
                                        ctx.preferred_meeting_duration),
                                 IF IsNone(flexibility) THEN "none" ELSE Val(flexibility)),
             asked |-> TRUE, fallback |-> FALSE]

\* _extract_booking_details; `asked` and `fallback` are ghosts: whether the
\* oracle was called, and whether the request came from _fallback_parsing
_extract_booking_details(ctx, clk, user_input, reply) ==
    LET fallback == _fallback_parsing(ctx, clk, user_input)
        called(r) == [r EXCEPT !.asked = TRUE]
        st == reply.start_time
        \* `if details.get("start_time")`, dateutil.parser.parse, localize
        parsed == st # <<>> /\ st[1] \in {"iso", "iso_offset"}
        start_time == IF parsed THEN Some(st[2]) ELSE None
        flexibility == Member(reply.flexibility, "rigid")
    IN IF ~ValidTimezone(ctx) \/ ~JsonSerializable(ctx.pending_booking) THEN fallback
       ELSE IF reply.kind \in {"error", "not_json", "not_object"} THEN called(fallback)
       ELSE [raised |-> FALSE,
             request |-> Request(Member(reply.summary, "Meeting"), start_time,
                                 parsed /\ st[1] = "iso",
                                 Member(reply.duration_minutes,
                                        ctx.preferred_meeting_duration),
                                 IF IsNone(flexibility) THEN "none" ELSE Val(flexibility)),
             asked |-> TRUE, fallback |-> FALSE]

\* _extract_meeting_reference: group(0) of the first of the four patterns that
\* matches, None when none does
DayWords == {"tomorrow", "today", "monday", "tuesday", "wednesday", "thursday",
             "friday", "saturday", "sunday"}
_extract_meeting_reference(text) ==
    LET clocks == Leftmost({i \in 1..Len(text) :
                     IsNumeral(text[i]) /\ text[i].m # NoMinute})
        days == Leftmost({i \in 1..Len(text) : \E d \in DayWords : WordHolds(text[i], d)})
        withs == Leftmost({i \in 1..(Len(text) - 2) :
                     WordEnds(text[i], "meeting") /\ text[i + 1] = W("with")})
        named == Leftmost({i \in 1..(Len(text) - 1) : WordBegins(text[i + 1], "meeting")})
    IN IF clocks # 0
       THEN Some(ClockRef(text[clocks].h, text[clocks].m, AmPmAt(text, clocks),
                          text[clocks].ap # ""))
       ELSE IF days # 0
       THEN Some(WordsRef(<<W(CHOOSE d \in DayWords : WordHolds(text[days], d))>>))
       ELSE IF withs # 0
       THEN Some(WordsRef(<<W("meeting"), W("with"), W(WordOf(text[withs + 2]))>>))
       ELSE IF named # 0
       THEN Some(WordsRef(<<W(WordOf(text[named])), W("meeting")>>))
       ELSE None

\* the slots from `current` to before `end`, `step` apart
RECURSIVE SlotsFrom(_, _, _)
SlotsFrom(current, end, step) ==
    IF current < end THEN <<current>> \o SlotsFrom(current + step, end, step) ELSE <<>>

RECURSIVE WeekSlots(_, _, _)
WeekSlots(ctx, next_monday, day) ==
    IF day = 5 THEN <<>>
    ELSE LET day_start == ReplaceHourMinute(next_monday + Days(day),
                                            ctx.business_hours_start)
             day_end == ReplaceHourMinute(day_start, ctx.business_hours_end)
         IN SlotsFrom(day_start, day_end, Hours(2)) \o WeekSlots(ctx, next_monday, day + 1)

\* _extract_time_range
_extract_time_range(ctx, clk, user_input) ==
    LET now == clk
        tomorrow == now + Days(1)
        next_week == \E i \in 1..(Len(user_input) - 1) :
                        /\ WordEnds(user_input[i], "next")
                        /\ WordBegins(user_input[i + 1], "week")
    IN IF ~ValidTimezone(ctx) THEN [raised |-> TRUE, slots |-> <<>>]
       ELSE IF Mentions(user_input, "tomorrow")
       THEN [raised |-> FALSE,
             slots |-> SlotsFrom(ReplaceHourMinute(tomorrow, ctx.business_hours_start),
                                 ReplaceHourMinute(tomorrow, ctx.business_hours_end),
                                 Hours(1))]
       ELSE IF next_week
       THEN [raised |-> FALSE,
             slots |-> WeekSlots(ctx, now + Days(7 - Weekday(now)), 0)]
       ELSE [raised |-> FALSE, slots |-> <<>>]

-----------------------------------------------------------------------------
(* Booking agent: scheduling *)

\* business hours that end before their last instant
CheckHalfOpen(ctx, dt) ==
    /\ ctx.business_hours_start <= TimeOfDay(dt)
    /\ TimeOfDay(dt) < ctx.business_hours_end

\* _check_business_hours: start <= dt.time() <= end
_check_business_hours(ctx, dt) ==
    /\ ctx.business_hours_start <= TimeOfDay(dt)
    /\ TimeOfDay(dt) <= ctx.business_hours_end

\* search_days and time_increments of _suggest_alternative_times
SearchDays(flexibility) ==
    CASE flexibility = "very_flexible" -> 14
      [] flexibility = "flexible" -> 7
      [] OTHER -> 2
TimeIncrements(flexibility) ==
    CASE flexibility = "very_flexible" -> <<30, 60, 120>>
      [] flexibility = "flexible" -> <<30, 60>>
      [] OTHER -> <<30>>

\* `if len(suggestions) >= 5: return suggestions`
MaxSuggestions == 5

\* a pass that puts the newest suggestion first
NotedNewestFirst(found, current_time, chk, cap) ==
    [S |-> chk.S,
     suggestions |-> IF chk.result THEN <<current_time>> \o found.suggestions
                     ELSE found.suggestions,
     done |-> chk.result /\ Len(found.suggestions) + 1 >= cap]

\* one pass of the while loop: `found` is [S, suggestions, done], done once
\* the search has returned; chk is what check_availability gave for the time
Noted(found, current_time, chk, cap) ==
    [S |-> chk.S,
     suggestions |-> IF chk.result THEN Append(found.suggestions, current_time)
                     ELSE found.suggestions,
     done |-> chk.result /\ Len(found.suggestions) + 1 >= cap]

\* the while loop over one day
RECURSIVE ScanDay(_, _, _, _, _, _, _, _)
ScanDay(found, clk, duration, fail, current_time, end_time, increment, cap) ==
    IF found.done \/ current_time + Minutes(duration) > end_time THEN found
    ELSE ScanDay(Noted(found, current_time,
                       check_availability(found.S, clk, current_time, Some(duration),
                                          0, fail),
                       cap),
                 clk, duration, fail, current_time + Minutes(increment), end_time,
                 increment, cap)

\* the for loop over the days
RECURSIVE ScanDays(_, _, _, _, _, _, _, _, _)
ScanDays(found, ctx, clk, base_time, duration, flexibility, fail, day_offset, cap) ==
    IF found.done \/ day_offset >= SearchDays(flexibility) THEN found
    ELSE LET current_day == base_time + Days(day_offset)
             start_time == ReplaceHourMinute(current_day, ctx.business_hours_start)
             end_time == ReplaceHourMinute(current_day, ctx.business_hours_end)
             time_increments == TimeIncrements(flexibility)
             increment == IF day_offset = 0 THEN time_increments[1]
                          ELSE time_increments[Len(time_increments)]
         IN ScanDays(ScanDay(found, clk, duration, fail, start_time, end_time,
                             increment, cap),
                     ctx, clk, base_time, duration, flexibility, fail, day_offset + 1, cap)

\* what the search returns
Suggested(found) ==
    [S |-> found.S, raised |-> FALSE, suggestions |-> found.suggestions]

SuggestUpTo(cap, ctx, S, clk, requested_time, duration, flexibility, fail) ==
    LET begun == Logged(S, [op |-> "suggest", start |-> requested_time,
                            dur |-> duration, result |-> TRUE, hit |-> FALSE,
                            stale |-> FALSE])
    IN \* timedelta(minutes=None) raises
       IF IsNone(duration) THEN [S |-> begun, raised |-> TRUE, suggestions |-> <<>>]
       ELSE Suggested(ScanDays([S |-> begun, suggestions |-> <<>>, done |-> FALSE],
                               ctx, clk, requested_time, Val(duration), flexibility,
                               fail, 0, cap))

\* a search that stops one suggestion later
SuggestOneMore(ctx, S, clk, requested_time, duration, flexibility, fail) ==
    SuggestUpTo(MaxSuggestions + 1, ctx, S, clk, requested_time, duration, flexibility, fail)

\* _suggest_alternative_times; the ghost log notes the search before its checks
_suggest_alternative_times(ctx, S, clk, requested_time, duration, flexibility, fail) ==
    SuggestUpTo(MaxSuggestions, ctx, S, clk, requested_time, duration, flexibility, fail)

-----------------------------------------------------------------------------
(* Booking agent: the handlers.                                            *)
(*                                                                         *)
(* A response is [msg, by, shown]: the message, named after the situation   *)
(* it is for, who worded it ("oracle" or the program's own "text") and the  *)
(* alternatives the program's text for it lists.  A                         *)
(* handler gives the context and the service state after it, its response  *)
(* and, as a ghost, the alternatives it computed (None when it made no      *)
(* search).                                                                *)
(***************************************************************************)

Text(msg) == [msg |-> msg, by |-> "text", shown |-> <<>>]

\* _generate_response: the oracle's wording, the default text when it raises
_generate_response(situation, respond) ==
    IF respond = "ok" THEN [msg |-> situation, by |-> "oracle", shown |-> <<>>]
    ELSE Text(situation)

Outcome(ctx, S, response, alternatives) ==
    [ctx |-> ctx, S |-> S, response |-> response, alternatives |-> alternatives]

\* alt_text: the lines of the program's text are those of alternatives[:3]
Presenting(response, alternatives) == [response EXCEPT !.shown = Take(alternatives, 3)]

\* a branch that creates the event a second time
BookTwice(ctx, S, clk, request, respond, fail) ==
    LET first == create_event(S, clk, request.summary, Val(request.start_time),
                              request.has_zone, request.duration, fail)
        result == create_event(first.S, clk, request.summary, Val(request.start_time),
                               request.has_zone, request.duration, fail)
        booked == [ctx EXCEPT !.last_intent = Some("book_meeting"),
                              !.pending_booking = None]
    IN Outcome(booked, result.S,
               IF IsNone(request.summary) THEN Text("booking_error")
               ELSE _generate_response("booking_successful", respond), None)

\* _handle_booking_request, the branch taken when the slot is available:
\* create_event, whose result is not looked at, then the context is updated;
\* request.summary.lower() raises on a null summary when the default text is
\* built, and the handler answers with its error text
BookAvailable(ctx, S, clk, request, respond, fail) ==
    LET result == create_event(S, clk, request.summary, Val(request.start_time),
                               request.has_zone, request.duration, fail)
        booked == [ctx EXCEPT !.last_intent = Some("book_meeting"),
                              !.pending_booking = None]
    IN Outcome(booked, result.S,
               IF IsNone(request.summary) THEN Text("booking_error")
               ELSE _generate_response("booking_successful", respond), None)

\* a handler that keeps the request pending whatever the search found
OfferAnyway(ctx, request, respond, alternatives) ==
    IF alternatives.raised
    THEN Outcome(ctx, alternatives.S, Text("booking_error"), None)
    ELSE Outcome([ctx EXCEPT !.pending_booking = Some(PendingRequest(request))],
                 alternatives.S,
                 IF alternatives.suggestions # <<>>
                 THEN _generate_response("time_conflict_with_alternatives", respond)
                 ELSE _generate_response("no_alternatives", respond),
                 Some(alternatives.suggestions))

\* a handler that lists every alternative the search found
OfferAndShowAll(ctx, request, respond, alternatives) ==
    IF alternatives.raised
    THEN Outcome(ctx, alternatives.S, Text("booking_error"), None)
    ELSE IF alternatives.suggestions # <<>>
    THEN Outcome([ctx EXCEPT !.pending_booking = Some(PendingRequest(request))],
                 alternatives.S,
                 [_generate_response("time_conflict_with_alternatives", respond)
                      EXCEPT !.shown = alternatives.suggestions],
                 Some(alternatives.suggestions))
    ELSE Outcome(ctx, alternatives.S, _generate_response("no_alternatives", respond),
                 Some(alternatives.suggestions))

\* what the handler does with the alternatives found
Offer(ctx, request, respond, alternatives) ==
    IF alternatives.raised
    THEN Outcome(ctx, alternatives.S, Text("booking_error"), None)
    ELSE IF alternatives.suggestions # <<>>
    THEN Outcome([ctx EXCEPT !.pending_booking = Some(PendingRequest(request))],
                 alternatives.S,
                 Presenting(_generate_response("time_conflict_with_alternatives",
                                               respond),
                            alternatives.suggestions),
                 Some(alternatives.suggestions))
    ELSE Outcome(ctx, alternatives.S, _generate_response("no_alternatives", respond),
                 Some(alternatives.suggestions))

\* _handle_booking_request, the branch taken when the slot is not available
OfferAlternatives(ctx, S, clk, request, respond, fail) ==
    Offer(ctx, request, respond,
          _suggest_alternative_times(ctx, S, clk, Val(request.start_time),
                                     request.duration, request.flexibility, fail))

\* `if self.calendar_service.check_availability(..)`: chk is what the call gave
IfAvailable(ctx, chk, clk, request, respond, fail) ==
    IF chk.result
    THEN BookAvailable(ctx, chk.S, clk, request, respond, fail)
    ELSE OfferAlternatives(ctx, chk.S, clk, request, respond, fail)

\* a handler that does not look at the business hours
BookWithoutHoursCheck(ctx, S, clk, request, respond, fail) ==
    IF IsNone(request.start_time)
    THEN Outcome(ctx, S, IF IsNone(request.summary) THEN Text("booking_error")
                         ELSE _generate_response("unclear_time", respond), None)
    ELSE IfAvailable(ctx,
                     check_availability(S, clk, Val(request.start_time),
                                        request.duration, 0, fail),
                     clk, request, respond, fail)

\* _handle_booking_request; every exception ends in the handler's error text
_handle_booking_request(ctx, S, clk, request, respond, fail) ==
    IF IsNone(request.start_time)
    THEN Outcome(ctx, S, IF IsNone(request.summary) THEN Text("booking_error")
                         ELSE _generate_response("unclear_time", respond), None)
    ELSE IF ~_check_business_hours(ctx, Val(request.start_time))
    THEN Outcome(ctx, S, _generate_response("outside_business_hours", respond), None)
    ELSE IfAvailable(ctx,
                     check_availability(S, clk, Val(request.start_time),
                                        request.duration, 0, fail),
                     clk, request, respond, fail)

\* one pass of the loop of _handle_availability_check
NotedSlot(found, slot_start, chk) ==
    [S |-> chk.S,
     available_slots |-> IF chk.result THEN Append(found.available_slots, slot_start)
                         ELSE found.available_slots]

\* the loop of _handle_availability_check over the slots
RECURSIVE CheckSlots(_, _, _, _, _, _)
CheckSlots(found, clk, time_slots, duration, fail, i) ==
    \* available_slots holds at most one entry per slot already passed
    IF i > Len(time_slots) \/ Len(found.available_slots) >= i THEN found
    ELSE CheckSlots(NotedSlot(found, time_slots[i],
                              check_availability(found.S, clk, time_slots[i],
                                                 Some(duration), 0, fail)),
                    clk, time_slots, duration, fail, i + 1)

\* _handle_availability_check from the slots on
ReportSlots(ctx, found) ==
    Outcome(ctx, found.S,
            \* slots_text lists available_slots[:10]
            IF found.available_slots # <<>>
            THEN [Text("availability_slots") EXCEPT
                     !.shown = Take(found.available_slots, 10)]
            ELSE Text("availability_none"), None)

CheckRange(ctx, S, clk, time_slots, fail) ==
    IF time_slots.raised THEN Outcome(ctx, S, Text("availability_error"), None)
    ELSE IF time_slots.slots = <<>>
    THEN Outcome(ctx, S, Text("availability_ask_range"), None)
    ELSE ReportSlots(ctx, CheckSlots([S |-> S, available_slots |-> <<>>], clk,
                                     time_slots.slots, ctx.preferred_meeting_duration,
                                     fail, 1))

_handle_availability_check(ctx, S, clk, user_input, fail) ==
    CheckRange(ctx, S, clk, _extract_time_range(ctx, clk, user_input), fail)

\* _handle_list_meetings from the events on
ListFound(ctx, upcoming_meetings) ==
    Outcome(ctx, upcoming_meetings.S,
            IF upcoming_meetings.events = <<>> THEN Text("list_none")
            ELSE Text("list_meetings"), None)

_handle_list_meetings(ctx, S, clk, fail) ==
    ListFound(ctx, get_upcoming_events(S, clk, 10, 30, fail))

\* _handle_cancel_meeting from the result of cancel_event on
\* a handler that reports every cancellation as done
CancelledWhatever(ctx, cancelled) ==
    Outcome(ctx, cancelled.S, Text("cancel_done"), None)

Cancelled(ctx, cancelled) ==
    Outcome(ctx, cancelled.S,
            IF cancelled.result THEN Text("cancel_done") ELSE Text("cancel_not_found"),
            None)

CancelReferred(ctx, S, clk, meeting_info, fail) ==
    IF IsNone(meeting_info) THEN Outcome(ctx, S, Text("cancel_ask_which"), None)
    ELSE Cancelled(ctx, cancel_event(S, clk, Val(meeting_info), fail))

_handle_cancel_meeting(ctx, S, clk, user_input, fail) ==
    CancelReferred(ctx, S, clk, _extract_meeting_reference(user_input), fail)

\* _handle_reschedule_meeting from the result of reschedule_event on
Rescheduled(ctx, success) ==
    Outcome(ctx, success.S,
            IF success.result THEN Text("reschedule_done") ELSE Text("reschedule_failed"),
            None)

\* _handle_reschedule_meeting from the alternatives on
RescheduleOffer(ctx, alternatives) ==
    IF alternatives.raised
    THEN Outcome(ctx, alternatives.S, Text("reschedule_error"), None)
    ELSE Outcome(ctx, alternatives.S,
                 IF alternatives.suggestions # <<>>
                 THEN Presenting(Text("reschedule_alternatives"),
                                 alternatives.suggestions)
                 ELSE Text("reschedule_no_alternatives"),
                 Some(alternatives.suggestions))

\* a handler that searches with the flexibility the extraction gave
RescheduleAsExtracted(ctx, chk, clk, meeting_info, new_time_info, fail) ==
    IF chk.result
    THEN Rescheduled(ctx, reschedule_event(chk.S, clk, meeting_info,
                                           Val(new_time_info.start_time),
                                           new_time_info.has_zone,
                                           new_time_info.duration, fail))
    ELSE RescheduleOffer(ctx, _suggest_alternative_times(ctx, chk.S, clk,
                                  Val(new_time_info.start_time),
                                  new_time_info.duration, new_time_info.flexibility,
                                  fail))

\* _handle_reschedule_meeting from the availability of the new time on
RescheduleIfAvailable(ctx, chk, clk, meeting_info, new_time_info, fail) ==
    IF chk.result
    THEN Rescheduled(ctx, reschedule_event(chk.S, clk, meeting_info,
                                           Val(new_time_info.start_time),
                                           new_time_info.has_zone,
                                           new_time_info.duration, fail))
    ELSE RescheduleOffer(ctx, _suggest_alternative_times(ctx, chk.S, clk,
                                  Val(new_time_info.start_time),
                                  new_time_info.duration, "flexible", fail))

\* _handle_reschedule_meeting from the two extractions on
RescheduleReferred(ctx, S, clk, meeting_info, extracted, fail) ==
    IF extracted.raised THEN Outcome(ctx, S, Text("reschedule_error"), None)
    ELSE IF IsNone(meeting_info) THEN Outcome(ctx, S, Text("reschedule_ask_which"), None)
    ELSE IF IsNone(extracted.request.start_time)
    THEN Outcome([ctx EXCEPT !.pending_booking = Some(PendingReschedule(Val(meeting_info)))],
                 S, Text("reschedule_ask_time"), None)
    ELSE RescheduleIfAvailable(ctx,
                               check_availability(S, clk,
                                                  Val(extracted.request.start_time),
                                                  extracted.request.duration, 0, fail),
                               clk, Val(meeting_info), extracted.request, fail)

_handle_reschedule_meeting(ctx, S, clk, user_input, reply, fail) ==
    RescheduleReferred(ctx, S, clk, _extract_meeting_reference(user_input),
                       _extract_booking_details(ctx, clk, user_input, reply), fail)

\* _handle_unclear_request: the oracle's clarification, the help text when the
\* call raises
_handle_unclear_request(ctx, S, respond) ==
    Outcome(ctx, S, IF respond = "ok" THEN [msg |-> "unclear", by |-> "oracle", shown |-> <<>>]
                    ELSE Text("unclear"), None)

\* set_user_preferences: an argument that is None, "" or 0 leaves its field
set_user_preferences(ctx, timezone, business_hours, default_duration) ==
    LET zoned == IF IsNone(timezone) \/ timezone = Some("") THEN ctx
                 ELSE [ctx EXCEPT !.user_timezone = Val(timezone)]
        houred == IF IsNone(business_hours) THEN zoned
                  ELSE [zoned EXCEPT !.business_hours_start = Val(business_hours)[1],
                                     !.business_hours_end = Val(business_hours)[2]]
    IN IF IsNone(default_duration) \/ default_duration = Some(0) THEN houred
       ELSE [houred EXCEPT !.preferred_meeting_duration = Val(default_duration)]

-----------------------------------------------------------------------------
(* Booking agent: run *)

\* `if len(history) > 10: history = history[-10:]`
MaxHistory == 10

\* conversation_history.append({"user": .., "timestamp": ..})
AppendTurn(ctx, clk, user_input) ==
    [ctx EXCEPT !.conversation_history =
        Append(@, [user |-> user_input, timestamp |-> clk, assistant |-> None])]

\* a history that is never cut
KeepAll(ctx) == ctx

\* history[-10:] when the history is longer than 10
Truncate(ctx) ==
    LET h == ctx.conversation_history
    IN IF Len(h) > MaxHistory
       THEN [ctx EXCEPT !.conversation_history = SubSeq(h, Len(h) - MaxHistory + 1, Len(h))]
       ELSE ctx

\* conversation_history[-1]["assistant"] = response; last_intent = intent
StoreResponse(ctx, intent, response) ==
    LET h == ctx.conversation_history
    IN [ctx EXCEPT !.conversation_history =
                       [h EXCEPT ![Len(h)].assistant = Some(response.msg)],
                   !.last_intent = Some(intent)]

\* a greeting that drops the pending booking
GreetAndForget(ctx, S) ==
    Outcome([ctx EXCEPT !.pending_booking = None], S, Text("greeting"), None)

\* the GREETING branch of run(): the fixed introduction
Greet(ctx, S) ==
    Outcome(ctx, S, Text("greeting"), None)

\* what a branch of run() that cannot raise hands back
Handled(outcome) ==
    [raised |-> FALSE, outcome |-> outcome, request |-> None, asked |-> FALSE,
     fallback |-> FALSE]

\* the BOOK_MEETING branch from the extraction on; an exception of
\* _extract_booking_details leaves run()'s try block
BookExtracted(ctx, S, clk, extracted, respond, fail) ==
    IF extracted.raised
    THEN [raised |-> TRUE, outcome |-> Outcome(ctx, S, Text("greeting"), None),
          request |-> None, asked |-> extracted.asked, fallback |-> TRUE]
    ELSE [raised |-> FALSE,
          outcome |-> _handle_booking_request(ctx, S, clk, extracted.request,
                                              respond, fail),
          request |-> Some(extracted.request),
          asked |-> extracted.asked, fallback |-> extracted.fallback]

\* the RESCHEDULE_MEETING branch: the handler's outcome, with the ghosts of the
\* extraction it made
Rescheduling(outcome, extracted) ==
    [raised |-> FALSE, outcome |-> outcome,
     request |-> IF extracted.raised THEN None ELSE Some(extracted.request),
     asked |-> extracted.asked, fallback |-> extracted.fallback]

\* the dispatch of run() on the intent: the handler's outcome, and whether an
\* exception left the try block
Dispatch(ctx, S, clk, intent, text, oracle, fail) ==
    CASE intent = "greeting" -> Handled(Greet(ctx, S))
      [] intent = "book_meeting" ->
           BookExtracted(ctx, S, clk,
                         _extract_booking_details(ctx, clk, text, oracle.extraction),
                         oracle.respond, fail)
      [] intent = "check_availability" ->
           Handled(_handle_availability_check(ctx, S, clk, text, fail))
      [] intent = "list_meetings" -> Handled(_handle_list_meetings(ctx, S, clk, fail))
      [] intent = "cancel_meeting" ->
           Handled(_handle_cancel_meeting(ctx, S, clk, text, fail))
      [] intent = "reschedule_meeting" ->
           Rescheduling(_handle_reschedule_meeting(ctx, S, clk, text,
                                                   oracle.extraction, fail),
                        _extract_booking_details(ctx, clk, text, oracle.extraction))
      [] OTHER -> Handled(_handle_unclear_request(ctx, S, oracle.respond))

\* the end of the try block: the response is stored unless the dispatch raised
Finish(entered, intent, d) ==
    [ctx |-> IF d.raised THEN entered
             ELSE StoreResponse(d.outcome.ctx, intent, d.outcome.response),
     S |-> d.outcome.S,
     raised |-> d.raised,
     response |-> d.outcome.response,
     intent |-> intent,
     request |-> d.request,
     alternatives |-> d.outcome.alternatives,
     asked |-> d.asked,
     fallback |-> d.fallback]

\* the try block of run() once the turn is in the history
RunEntered(entered, S, clk, intent, text, oracle, fail) ==
    Finish(entered, intent, Dispatch(entered, S, clk, intent, text, oracle, fail))

\* the try block of run(): what it leaves behind and whether it raised
RunBody(ctx, S, clk, user_input, text, oracle, fail) ==
    RunEntered(Truncate(AppendTurn(ctx, clk, user_input)), S, clk,
               _recognize_intent(oracle.intent), text, oracle, fail)

\* the except clause of run(): any exception becomes the apology
Guarded(body) ==
    IF body.raised THEN [body EXCEPT !.raised = FALSE, !.response = Text("run_error")]
    ELSE body

\* run() without its except clause
RunUnguarded(ctx, S, clk, user_input, text, oracle, fail) ==
    RunBody(ctx, S, clk, user_input, text, oracle, fail)

\* run(user_input)
run(ctx, S, clk, user_input, text, oracle, fail) ==
    Guarded(RunBody(ctx, S, clk, user_input, text, oracle, fail))

-----------------------------------------------------------------------------
(* State shared by the specifications *)

Threads == {1, 2}

BusinessStartDefault == Hours(9)
BusinessEndDefault == Hours(17)
PreferredDurationDefault == 60

\* ConversationContext()
InitialContext ==
    [last_intent |-> None,
     pending_booking |-> None,
     conversation_history |-> <<>>,
     user_timezone |-> "Asia/Kolkata",
     preferred_meeting_duration |-> PreferredDurationDefault,
     business_hours_start |-> BusinessStartDefault,
     business_hours_end |-> BusinessEndDefault]

\* an event made outside the agent, already on the calendar when it starts
ForeignEvent == [id |-> 0, summary |-> Some("Team Meeting"),
                 start |-> At(1, 10, 0), end |-> At(1, 11, 0)]
InitialCalendars == {{}, {ForeignEvent}}

\* the process starts on Monday at 08:00
StartClock == At(0, 8, 0)

\* the locals of a run() call: its input, the intent once classified, the
\* response once the handler returned and whether the handler raised
NoFrame == [input |-> Turn(0, Oracle("", NoJson("error"), ""), {}),
            intent |-> "", response |-> Text(""), raised |-> FALSE]

Init ==
    /\ clock = StartClock
    /\ calendar \in InitialCalendars
    /\ events_cache = <<>>
    /\ cache_expiry = <<>>
    /\ cache_meta = <<>>
    /\ context = InitialContext
    /\ pc = [t \in Threads |-> "idle"]
    /\ frame = [t \in Threads |-> NoFrame]
    /\ turns = 0
    /\ last_request_times = <<>>
    /\ _agent_instance = None
    /\ _agent_error = None
    /\ obs = [kind |-> "init", log |-> <<>>]

\* the service's state as the operations take it, with an empty call log
Svc == [cal |-> calendar, cache |-> events_cache,
        expiry |-> cache_expiry, meta |-> cache_meta, log |-> <<>>]

Commit(S) ==
    /\ Cardinality(S.cal) <= MaxEvents
    /\ Cardinality({key \in DOMAIN S.cache : key[1] = "upcoming_events"}) <= MaxLookups
    /\ calendar' = S.cal
    /\ events_cache' = S.cache
    /\ cache_expiry' = S.expiry
    /\ cache_meta' = S.meta

\* time passes
Tick ==
    /\ clock + TickSeconds <= StartClock + MaxClock
    /\ clock' = clock + TickSeconds
    /\ UNCHANGED <<svcVars, agentVars, last_request_times, routeAgent, obs>>

-----------------------------------------------------------------------------
(* SpecCal: the calendar service called directly, one operation at a time *)

CalRanges == {<<At(1, 10, 0), Some(60)>>, <<At(1, 10, 30), Some(30)>>}
CalReferences == {WordsRef(<<W("team"), W("meeting")>>), WordsRef(<<W("call")>>),
                  ClockRef(10, 0, "", FALSE)}
CalFailures == {{}, {"list"}, {"insert", "delete", "update"}}

CheckAvailabilityOp ==
    \E range \in CalRanges, fail \in CalFailures :
        LET r == check_availability(Svc, clock, range[1], range[2], 0, fail)
        IN /\ Commit(r.S)
           /\ obs' = [kind |-> "check", log |-> r.S.log]
           /\ UNCHANGED <<clock, agentVars, last_request_times, routeAgent>>

CreateEventOp ==
    \E range \in CalRanges, fail \in CalFailures :
        LET r == create_event(Svc, clock, Some("Call"), range[1], TRUE, range[2], fail)
        IN /\ Commit(r.S)
           /\ obs' = [kind |-> "create", log |-> r.S.log]
           /\ UNCHANGED <<clock, agentVars, last_request_times, routeAgent>>

CancelEventOp ==
    \E ref \in CalReferences, fail \in CalFailures :
        LET r == cancel_event(Svc, clock, ref, fail)
        IN /\ Commit(r.S)
           /\ obs' = [kind |-> "cancel", log |-> r.S.log]
           /\ UNCHANGED <<clock, agentVars, last_request_times, routeAgent>>

RescheduleEventOp ==
    \E ref \in CalReferences, range \in CalRanges \cup {<<At(1, 10, 30), None>>},
       fail \in CalFailures :
        LET r == reschedule_event(Svc, clock, ref, range[1], TRUE, range[2], fail)
        IN /\ Commit(r.S)
           /\ obs' = [kind |-> "reschedule", log |-> r.S.log]
           /\ UNCHANGED <<clock, agentVars, last_request_times, routeAgent>>

NextCal ==
    \/ CheckAvailabilityOp
    \/ CreateEventOp
    \/ CancelEventOp
    \/ RescheduleEventOp
    \/ Tick

SpecCal == Init /\ [][NextCal]_vars

\* C1: after a successful create_event, cancel_event or reschedule_event, no
\* later check_availability for a range that overlaps the mutated one returns a
\* result that was cached before the mutation.
C1_NoStaleAvailabilityAfterMutation ==
    \A i \in 1..Len(obs.log) :
        obs.log[i].op = "check" => ~(obs.log[i].hit /\ obs.log[i].stale)

-----------------------------------------------------------------------------
(* SpecSvc: a few calls to the calendar service, each with what it returned *)

MaxCalls == 3
SvcFailures == {{}, {"list"}, {"delete", "update"}, {"get"}}

\* what a call gave (ghost), with the backend requests that failed during it
Called(kind, S, result, fail) ==
    [kind |-> kind, log |-> S.log, result |-> result, fail |-> fail]

SvcReturn(kind, S, result, fail) ==
    /\ turns < MaxCalls
    /\ Commit(S)
    /\ obs' = Called(kind, S, result, fail)
    /\ turns' = turns + 1
    /\ UNCHANGED <<clock, context, pc, frame, last_request_times, routeAgent>>

CheckAvailabilityCall ==
    \E range \in CalRanges, fail \in SvcFailures :
        LET r == check_availability(Svc, clock, range[1], range[2], 0, fail)
        IN SvcReturn("check", r.S, r.result, fail)

CreateEventCall ==
    \E range \in CalRanges :
        LET r == create_event(Svc, clock, Some("Call"), range[1], TRUE, range[2], {})
        IN SvcReturn("create", r.S, r.ok, {})

CancelEventCall ==
    \E ref \in CalReferences, fail \in SvcFailures :
        LET r == cancel_event(Svc, clock, ref, fail)
        IN SvcReturn("cancel", r.S, r.result, fail)

RescheduleEventCall ==
    \E ref \in CalReferences, range \in CalRanges, has_zone \in BOOLEAN,
       fail \in SvcFailures :
        LET r == reschedule_event(Svc, clock, ref, range[1], has_zone, range[2], fail)
        IN SvcReturn("reschedule", r.S, r.result, fail)

GetUpcomingEventsCall ==
    \E fail \in SvcFailures :
        LET r == get_upcoming_events(Svc, clock, 10, 30, fail)
        IN SvcReturn("upcoming", r.S, r.events, fail)

GetBusyTimesCall ==
    \E range \in CalRanges, fail \in SvcFailures :
        LET r == get_busy_times(Svc, range[1], range[1] + Minutes(Val(range[2])), fail)
        IN SvcReturn("busy", r.S, r.busy_times, fail)

NextSvc ==
    \/ CheckAvailabilityCall
    \/ CreateEventCall
    \/ CancelEventCall
    \/ RescheduleEventCall
    \/ GetUpcomingEventsCall
    \/ GetBusyTimesCall
    \/ Tick

SpecSvc == Init /\ [][NextSvc]_vars

\* C25: no operation of the calendar service raises on a backend failure:
\* check_availability, cancel_event and reschedule_event return false,
\* get_upcoming_events and get_busy_times return an empty list; a failed
\* check_availability stores nothing in the cache; a failed cancel_event or
\* reschedule_event, one that finds no event included, leaves the cache and the
\* calendar as they were.
C25_ServiceFailsSoft ==
    [][/\ (obs'.kind = "check" /\ "list" \in obs'.fail /\ ~obs'.log[1].hit) =>
             /\ obs'.result = FALSE
             /\ events_cache' = events_cache
             /\ cache_expiry' = cache_expiry
       /\ (obs'.kind \in {"upcoming", "busy"} /\ "list" \in obs'.fail) =>
             obs'.result = <<>>
       /\ (obs'.kind = "cancel" /\ obs'.fail \cap {"list", "delete"} # {}) =>
             obs'.result = FALSE
       /\ (obs'.kind = "reschedule" /\ obs'.fail \cap {"list", "get", "update"} # {}) =>
             obs'.result = FALSE
       /\ (obs'.kind \in {"cancel", "reschedule"} /\ obs'.result = FALSE) =>
             /\ calendar' = calendar
             /\ events_cache' = events_cache
             /\ cache_expiry' = cache_expiry]_vars

-----------------------------------------------------------------------------
(* Spec: the turns of one conversation, one after the other                *)

\* book a call for 45 min tomorrow at 2pm
CallFor45Min == <<W("book"), W("a"), W("call"), W("for"), Num(45, NoMinute, ""),
                  W("min"), W("tomorrow"), W("at"), Num(2, NoMinute, "pm")>>
\* next week same time
NextWeekSameTime == <<W("next"), W("week"), W("same"), W("time")>>
\* schedule something flexible around next monday
FlexibleNextMonday == <<W("schedule"), W("something"), W("flexible"), W("around"),
                        W("next"), W("monday")>>
\* what the user says
Texts == <<
    \* book a call tomorrow at 2pm
    <<W("book"), W("a"), W("call"), W("tomorrow"), W("at"), Num(2, NoMinute, "pm")>>,
    \* book a meeting
    <<W("book"), W("a"), W("meeting")>>,
    \* what is free tomorrow
    <<W("what"), W("is"), W("free"), W("tomorrow")>>,
    \* cancel my team meeting
    <<W("cancel"), W("my"), W("team"), W("meeting")>>,
    \* move the 10:00 meeting to tomorrow at 2pm
    <<W("move"), W("the"), Num(10, 0, ""), W("meeting"), W("to"), W("tomorrow"),
      W("at"), Num(2, NoMinute, "pm")>>,
    \* hello
    <<W("hello")>>,
    FlexibleNextMonday,
    \* what is free next week
    <<W("what"), W("is"), W("free"), W("next"), W("week")>> >>

\* tomorrow 14:00, free at the start; tomorrow 10:00, where ForeignEvent is
FreeSlot == At(1, 14, 0)
TakenSlot == At(1, 10, 0)
CallAtTwo == Json(<<"v", "Call">>, <<"iso", FreeSlot>>, <<>>, <<>>)

BookingTurns ==
    { Turn(1, Oracle("book_meeting", CallAtTwo, "ok"), {}),
      Turn(1, Oracle("book_meeting", CallAtTwo, "ok"), {"insert"}),
      Turn(1, Oracle("book_meeting", CallAtTwo, "error"), {"list"}),
      Turn(1, Oracle("book_meeting", NoJson("error"), "error"), {}),
      Turn(1, Oracle("book_meeting", NoJson("not_json"), "ok"), {}),
      Turn(1, Oracle("book_meeting",
                     Json(<<>>, <<"iso_offset", FreeSlot>>, <<"v", 30>>, <<>>), "ok"), {}),
      Turn(1, Oracle("book_meeting",
                     Json(<<"null">>, <<"iso", FreeSlot>>, <<>>, <<>>), "ok"), {}),
      Turn(1, Oracle("book_meeting",
                     Json(<<>>, <<"iso", FreeSlot>>, <<"null">>, <<>>), "ok"), {}),
      Turn(1, Oracle("book_meeting",
                     Json(<<>>, <<"iso", TakenSlot>>, <<>>, <<"v", "flexible">>), "ok"), {}),
      Turn(1, Oracle("book_meeting",
                     Json(<<>>, <<"iso", TakenSlot>>, <<"v", 600>>, <<>>), "ok"), {}),
      Turn(1, Oracle("book_meeting",
                     Json(<<>>, <<"iso", At(1, 20, 0)>>, <<>>, <<>>), "ok"), {}),
      Turn(1, Oracle("book_meeting",
                     Json(<<>>, <<"iso", At(1, 17, 0)>>, <<>>, <<>>), "ok"), {}),
      Turn(2, Oracle("book_meeting", Json(<<>>, <<"null">>, <<>>, <<>>), "ok"), {}),
      Turn(2, Oracle("book_meeting", Json(<<"null">>, <<"null">>, <<>>, <<>>), "ok"), {}),
      Turn(2, Oracle("book_meeting", Json(<<>>, <<"text">>, <<>>, <<>>), "error"), {}),
      Turn(2, Oracle("book_meeting", NoJson("not_object"), "ok"), {}),
      Turn(7, Oracle("book_meeting", NoJson("not_json"), "ok"), {}) }

OtherTurns ==
    { Turn(3, Oracle("check_availability", NoJson("error"), "ok"), {}),
      Turn(6, Oracle("check_availability", NoJson("error"), "ok"), {}),
      Turn(8, Oracle("check_availability", NoJson("error"), "ok"), {}),
      Turn(4, Oracle("cancel_meeting", NoJson("error"), "ok"), {}),
      Turn(4, Oracle("cancel_meeting", NoJson("error"), "ok"), {"delete"}),
      Turn(6, Oracle("cancel_meeting", NoJson("error"), "ok"), {}),
      Turn(5, Oracle("cancel_meeting", NoJson("error"), "ok"), {}),
      Turn(5, Oracle("reschedule_meeting", CallAtTwo, "ok"), {}),
      Turn(5, Oracle("reschedule_meeting", Json(<<>>, <<"null">>, <<>>, <<>>), "ok"), {}),
      Turn(5, Oracle("reschedule_meeting",
                     Json(<<>>, <<"iso", TakenSlot>>, <<"v", 420>>, <<"v", "rigid">>),
                     "ok"), {}),
      Turn(5, Oracle("reschedule_meeting", CallAtTwo, "ok"), {"update"}),
      Turn(6, Oracle("reschedule_meeting", CallAtTwo, "ok"), {}),
      Turn(3, Oracle("list_meetings", NoJson("error"), "ok"), {}),
      Turn(3, Oracle("list_meetings", NoJson("error"), "ok"), {"list"}),
      Turn(6, Oracle("greeting", NoJson("error"), "ok"), {}),
      Turn(6, Oracle("error", NoJson("error"), "error"), {}),
      Turn(6, Oracle("i think this is a booking", NoJson("error"), "ok"), {}) }

TurnInputs == BookingTurns \cup OtherTurns

\* the state after run() returns, and what the turn did (ghost): the calls it
\* made, what was extracted, the alternatives found, the response
Observed(r, turn, input, after_error) ==
    [kind |-> "run", turn |-> turn, input |-> input, intent |-> r.intent,
     request |-> r.request, response |-> r.response, raised |-> r.raised,
     alternatives |-> r.alternatives, asked |-> r.asked, fallback |-> r.fallback,
     after_error |-> after_error, log |-> r.S.log]

\* the last turn ended in run()'s except clause
AfterError ==
    \/ obs.kind = "run" /\ obs.response.msg = "run_error"
    \/ obs.kind = "preferences" /\ obs.after_error

\* run() returns r: the context and the calendar are as it left them
Return(r, input) ==
    /\ Commit(r.S)
    /\ context' = r.ctx
    /\ obs' = Observed(r, turns + 1, input, AfterError)

\* one turn: POST /book served from start to end
RunTurn(inputs, max_turns) ==
    /\ turns < max_turns
    /\ \E input \in inputs :
         Return(run(context, Svc, clock, input.user_input, Texts[input.user_input],
                    input.oracle, input.fail), input)
    /\ turns' = turns + 1
    /\ UNCHANGED <<clock, pc, frame, last_request_times, routeAgent>>

Run == RunTurn(TurnInputs, MaxTurns)

\* POST /preferences: set_user_preferences with what the request holds
PreferenceInputs ==
    { <<Some("Mars/Olympus"), None, None>>,
      <<Some("Asia/Kolkata"), None, Some(0)>>,
      <<None, Some(<<Hours(10), Hours(16)>>), Some(30)>> }

SetUserPreferences ==
    /\ \E p \in PreferenceInputs :
         /\ context' = set_user_preferences(context, p[1], p[2], p[3])
         /\ context' # context
    /\ obs' = [kind |-> "preferences", log |-> <<>>, after_error |-> AfterError]
    /\ UNCHANGED <<clock, svcVars, pc, frame, turns, last_request_times, routeAgent>>

Next ==
    \/ Run
    \/ SetUserPreferences
    \/ Tick

Spec == Init /\ [][Next]_vars

-----------------------------------------------------------------------------
(* Properties of the booking turns *)

IsBookingTurn(o) == o.kind = "run" /\ o.intent = "book_meeting"
Calls(o, op) == {i \in 1..Len(o.log) : o.log[i].op = op}
\* the turn asked check_availability about the requested start first and got
\* this answer
FirstCheckGave(o, answer) ==
    /\ IsBookingTurn(o)
    /\ o.log # <<>>
    /\ o.log[1].op = "check"
    /\ o.log[1].result = answer

\* C2: a booking turn never calls create_event for a start time and duration
\* for which an earlier turn created an event that is still on the calendar.
C2_NoDoubleBooking ==
    [][\A i \in Calls(obs', "create") :
          IsBookingTurn(obs') /\ ~IsNone(obs'.log[i].dur) =>
              ~\E ev \in calendar :
                    /\ ev.id # ForeignEvent.id
                    /\ ev.start = obs'.log[i].start
                    /\ ev.end = obs'.log[i].start + Minutes(Val(obs'.log[i].dur))]_vars

\* C4: in a booking turn whose start time is resolved and within business
\* hours, when check_availability says the slot is free, create_event is
\* called exactly once and the search for alternatives is not made.
C4_AvailableCreatesOnce ==
    FirstCheckGave(obs, TRUE) =>
        /\ Cardinality(Calls(obs, "create")) = 1
        /\ Calls(obs, "suggest") = {}

C4_Witness ==
    /\ FirstCheckGave(obs, TRUE)
    /\ _check_business_hours(context, Val(Val(obs.request).start_time))
    /\ obs.response.msg = "booking_successful"
    /\ \E ev \in calendar : ev.start = Val(Val(obs.request).start_time)

\* C5: a booking turn in which check_availability says the slot is taken and
\* the search finds no alternative does not call create_event and leaves
\* pending_booking as it was before the turn.
C5_NoAlternativesKeepsPending ==
    [][(FirstCheckGave(obs', FALSE) /\ obs'.alternatives = Some(<<>>)) =>
          /\ Calls(obs', "create") = {}
          /\ context'.pending_booking = context.pending_booking]_vars

\* a turn without alternatives, after one that left a request pending
C5_Witness ==
    /\ FirstCheckGave(obs, FALSE)
    /\ obs.alternatives = Some(<<>>)
    /\ obs.response.msg = "no_alternatives"
    /\ ~IsNone(context.pending_booking)

\* C6: a booking turn whose extracted start time is null makes no call to the
\* calendar and answers with the request to clarify the time.
C6_NullStartAsksForTime ==
    (IsBookingTurn(obs) /\ ~IsNone(obs.request) /\ IsNone(Val(obs.request).start_time)) =>
        /\ obs.log = <<>>
        /\ obs.response.msg = "unclear_time"

\* C8: run() gives a response for every input and every failure of the oracle
\* or the calendar: no exception leaves run(), also on the turn after one that
\* failed.
Responses ==
    {"greeting", "unclear", "run_error", "booking_error", "unclear_time",
     "outside_business_hours", "booking_successful", "time_conflict_with_alternatives",
     "no_alternatives", "availability_error", "availability_ask_range",
     "availability_slots", "availability_none", "list_none", "list_meetings",
     "cancel_ask_which", "cancel_done", "cancel_not_found", "reschedule_error",
     "reschedule_ask_which", "reschedule_ask_time", "reschedule_done",
     "reschedule_failed", "reschedule_alternatives", "reschedule_no_alternatives"}
C8_RunNeverRaises ==
    obs.kind = "run" => ~obs.raised /\ obs.response.msg \in Responses

\* an exception reached run()'s except clause, and the turn after it was
\* served
C8_Witness ==
    /\ obs.kind = "run"
    /\ obs.after_error
    /\ obs.response.msg \in {"greeting", "booking_successful"}

\* C10: when create_event fails in a booking turn the response is not the
\* confirmation of a booking, and a pending booking is not cleared.
C10_CreateFailureReported ==
    [][(IsBookingTurn(obs') /\ \E i \in Calls(obs', "create") : ~obs'.log[i].result) =>
          /\ obs'.response.msg # "booking_successful"
          /\ (~IsNone(context.pending_booking) => ~IsNone(context'.pending_booking))]_vars

\* C11: in a booking or rescheduling turn, _fallback_parsing runs only after
\* the oracle's extraction call was made in that turn (and failed), whatever
\* the context holds, a pending booking included.
C11_FallbackOnlyAfterOracle ==
    (obs.kind = "run" /\ obs.intent \in {"book_meeting", "reschedule_meeting"}
        /\ obs.fallback) => obs.asked

\* C15: on the fallback path, "schedule something flexible around next
\* Monday" gives a null start time and flexibility "flexible"; the booking
\* turn asks for the time and makes no call to the calendar.
C15_FlexibleNextMondayAsksForTime ==
    (IsBookingTurn(obs) /\ obs.fallback /\ ~IsNone(obs.request)
        /\ Texts[obs.input.user_input] = FlexibleNextMonday) =>
        /\ IsNone(Val(obs.request).start_time)
        /\ Val(obs.request).flexibility = "flexible"
        /\ obs.log = <<>>
        /\ obs.response.msg = "unclear_time"

\* C18: a turn classified as a greeting answers with the fixed introduction,
\* makes no call to the calendar and leaves pending_booking as it was.
C18_GreetingTouchesNothing ==
    [][(turns' = turns + 1 /\ obs'.intent = "greeting") =>
          /\ obs'.response = Text("greeting")
          /\ obs'.log = <<>>
          /\ context'.pending_booking = context.pending_booking]_vars

\* a greeting while a booking is pending
C18_Witness ==
    /\ obs.kind = "run"
    /\ obs.intent = "greeting"
    /\ obs.response = Text("greeting")
    /\ ~IsNone(context.pending_booking)

\* the messages of the except clauses
ErrorMessages == {"run_error", "booking_error", "availability_error", "reschedule_error"}
\* the three branches that may change pending_booking, told from what the
\* turn o did and the value p it left
SetOnConflict(o, p) ==
    /\ FirstCheckGave(o, FALSE)
    /\ ~IsNone(o.alternatives)
    /\ Val(o.alternatives) # <<>>
    /\ p = Some(PendingRequest(Val(o.request)))
SetOnReschedule(o, p) ==
    /\ o.intent = "reschedule_meeting"
    /\ o.response.msg = "reschedule_ask_time"
    /\ ~IsNone(_extract_meeting_reference(Texts[o.input.user_input]))
    /\ p = Some(PendingReschedule(
                  Val(_extract_meeting_reference(Texts[o.input.user_input]))))
ClearedOnBooking(o, p) ==
    /\ FirstCheckGave(o, TRUE)
    /\ \E i \in Calls(o, "create") : o.log[i].result
    /\ p = None

\* C19: over any sequence of turns pending_booking changes only when a booking
\* turn hits a conflict and finds alternatives (set to the request), when a
\* rescheduling turn has a reference and no new time (set to the marker) and
\* when a booking turn finds the slot free and creates the event (cleared);
\* every other branch and every turn that ends in an error message leaves it.
C19_PendingChangesOnThreeBranches ==
    [][turns' = turns + 1 =>
          /\ context'.pending_booking # context.pending_booking =>
                \/ SetOnConflict(obs', context'.pending_booking)
                \/ SetOnReschedule(obs', context'.pending_booking)
                \/ ClearedOnBooking(obs', context'.pending_booking)
          /\ obs'.response.msg \in ErrorMessages =>
                context'.pending_booking = context.pending_booking]_vars

\* C20: after every turn that returns from run(), last_intent is the intent
\* the turn was classified as, whatever the branch and whether or not it
\* ended in an error message.
C20_LastIntentIsClassified ==
    obs.kind = "run" => context.last_intent = Some(obs.intent)

-----------------------------------------------------------------------------
(* SpecChat: a long conversation *)

ChatTurns ==
    { Turn(6, Oracle("greeting", NoJson("error"), "ok"), {}),
      Turn(6, Oracle("error", NoJson("error"), "error"), {}) }
MaxChatTurns == 12

Chat == RunTurn(ChatTurns, MaxChatTurns)

NextChat == Chat

SpecChat == Init /\ [][NextChat]_vars

\* history[-n:]
Last(h, n) == SubSeq(h, Max(1, Len(h) - n + 1), Len(h))

\* C3: the conversation history never holds more than 10 entries, and a turn
\* leaves in it the most recent 10 of the entries before it followed by its
\* own, in the order they came: the oldest ones are dropped.
C3_HistoryKeepsLastTen ==
    /\ [](Len(context.conversation_history) <= 10)
    /\ [][turns' = turns + 1 =>
            /\ context'.conversation_history # <<>>
            /\ context'.conversation_history =
                 Last(Append(context.conversation_history,
                             context'.conversation_history[
                                 Len(context'.conversation_history)]), 10)]_vars

\* the eleventh turn has been served and the history was cut
C3_Witness ==
    /\ turns >= 11
    /\ Len(context.conversation_history) = 10

-----------------------------------------------------------------------------
(* SpecSearch: the search for alternatives called directly *)

MaxSearches == 2
SearchTimes == {TakenSlot, StartClock + Hours(2) + TickSeconds}
SearchDurations == {30, 480}
SearchFlexibilities == {"rigid", "flexible", "very_flexible"}
SearchHours == {None, Some(<<Hours(10), Hours(16)>>)}
SearchFailures == {{}, {"list"}}
\* the searches made: every time, duration and flexibility above, and one
\* search for a meeting of no length
SearchInputs ==
    (SearchTimes \X SearchDurations \X SearchFlexibilities)
        \cup {<<TakenSlot, 0, "rigid">>}

\* what the search gave (ghost), with the business hours it was made under
Searched(r, ctx, duration, flexibility) ==
    [kind |-> "search", log |-> r.S.log, suggestions |-> r.suggestions,
     raised |-> r.raised, duration |-> duration, flexibility |-> flexibility,
     business_hours_start |-> ctx.business_hours_start,
     business_hours_end |-> ctx.business_hours_end]

SearchReturn(r, ctx, duration, flexibility) ==
    /\ Commit(r.S)
    /\ obs' = Searched(r, ctx, duration, flexibility)

SearchWith(ctx) ==
    \E input \in SearchInputs, fail \in SearchFailures :
        SearchReturn(_suggest_alternative_times(ctx, Svc, clock, input[1],
                                                Some(input[2]), input[3], fail),
                     ctx, input[2], input[3])

SuggestAlternativeTimesOp ==
    /\ turns < MaxSearches
    /\ \E hours \in SearchHours :
          SearchWith(set_user_preferences(context, None, hours, None))
    /\ turns' = turns + 1
    /\ UNCHANGED <<clock, context, pc, frame, last_request_times, routeAgent>>

BookedOutside ==
    \E range \in CalRanges :
        /\ Commit(create_event(Svc, clock, Some("Call"), range[1], TRUE, range[2], {}).S)
        /\ obs' = [kind |-> "create", log |-> <<>>]
        /\ UNCHANGED <<clock, agentVars, last_request_times, routeAgent>>

NextSearch ==
    \/ SuggestAlternativeTimesOp
    \/ BookedOutside
    \/ Tick

SpecSearch == Init /\ [][NextSearch]_vars

\* C7: for a duration above 0, _suggest_alternative_times returns at most 5
\* start times; each lies in [business start, business end) on its day and is
\* a time that check_availability, asked during the search, said was free.
C7_SuggestionsBoundedAndChecked ==
    (obs.kind = "search" /\ obs.duration > 0) =>
        /\ Len(obs.suggestions) <= 5
        /\ \A k \in 1..Len(obs.suggestions) :
              /\ obs.business_hours_start <= TimeOfDay(obs.suggestions[k])
              /\ TimeOfDay(obs.suggestions[k]) < obs.business_hours_end
              /\ \E i \in Calls(obs, "check") :
                    /\ obs.log[i].start = obs.suggestions[k]
                    /\ obs.log[i].dur = Some(obs.duration)
                    /\ obs.log[i].result

\* a search that found five times and stopped, past a time that was taken
C7_Witness ==
    /\ obs.kind = "search"
    /\ Len(obs.suggestions) = 5
    /\ \E i \in Calls(obs, "check") : ~obs.log[i].result

\* the candidates of a search, in the order tried: the times of the
\* check_availability calls that follow the search's own log entry
Candidates(o) == [i \in 1..(Len(o.log) - 1) |-> o.log[i + 1].start]
\* the day of a candidate, counted from the day of the requested time
DayOffset(o, c) == DayOf(c) - DayOf(o.log[1].start)
Horizon(flexibility) ==
    IF flexibility = "very_flexible" THEN 14 ELSE IF flexibility = "flexible" THEN 7 ELSE 2
StepMinutes(flexibility, day_offset) ==
    IF day_offset = 0 THEN 30
    ELSE IF flexibility = "very_flexible" THEN 120
    ELSE IF flexibility = "flexible" THEN 60 ELSE 30

\* C27: _suggest_alternative_times searches the days from the requested day to
\* H - 1 days after it, H being 2 for rigid, 7 for flexible and 14 for
\* very_flexible; the candidates of the requested day are 30 minutes apart,
\* those of the later days 30, 60 or 120 minutes apart; on each day the first
\* candidate is at business_hours_start and every candidate plus the duration
\* is not after business_hours_end.
C27_CandidatesOfTheSearch ==
    (obs.kind = "search" /\ obs.duration > 0) =>
        LET c == Candidates(obs)
            first(i) == i = 1 \/ DayOffset(obs, c[i - 1]) # DayOffset(obs, c[i])
        IN \A i \in DOMAIN c :
              /\ DayOffset(obs, c[i]) \in 0..(Horizon(obs.flexibility) - 1)
              /\ TimeOfDay(c[i]) + Minutes(obs.duration) <= obs.business_hours_end
              /\ first(i) => TimeOfDay(c[i]) = obs.business_hours_start
              /\ (i > 1 /\ first(i)) =>
                    DayOffset(obs, c[i]) = DayOffset(obs, c[i - 1]) + 1
              /\ ~first(i) =>
                    c[i] = c[i - 1]
                            + Minutes(StepMinutes(obs.flexibility,
                                                  DayOffset(obs, c[i])))

\* the times check_availability said were free, in the order asked
RECURSIVE FreeOf(_, _)
FreeOf(log, i) ==
    IF i > Len(log) THEN <<>>
    ELSE IF log[i].op = "check" /\ log[i].result
    THEN <<log[i].start>> \o FreeOf(log, i + 1)
    ELSE FreeOf(log, i + 1)

\* C37: no alternative _suggest_alternative_times returns for a requested
\* time t is earlier than t.
C37_AlternativesNotBeforeRequested ==
    (/\ obs.kind = "search" /\ obs.duration > 0
     /\ obs.log # <<>> /\ obs.log[1].op = "suggest") =>
        \A k \in 1..Len(obs.suggestions) : obs.suggestions[k] >= obs.log[1].start

\* C28: _suggest_alternative_times returns its candidates in strictly
\* increasing order, asks check_availability nothing after the fifth candidate
\* is accepted, and returns exactly the free candidates it found, none
\* included, without raising when the horizon ends before five are found; it
\* terminates on every input.
C28_SearchOrderedAndStopsAtFive ==
    obs.kind = "search" =>
        /\ ~obs.raised
        /\ \A k \in 1..(Len(obs.suggestions) - 1) :
              obs.suggestions[k] < obs.suggestions[k + 1]
        /\ obs.suggestions = FreeOf(obs.log, 1)
        /\ Len(obs.suggestions) <= 5
        /\ Len(obs.suggestions) = 5 =>
              /\ obs.log[Len(obs.log)].start = obs.suggestions[5]
              /\ obs.log[Len(obs.log)].result

\* the horizon ended with fewer than five free times, one candidate being taken
C28_Witness ==
    /\ obs.kind = "search"
    /\ Len(obs.suggestions) \in 2..4
    /\ \E i \in Calls(obs, "check") : ~obs.log[i].result

IsRescheduleTurn(o) == o.kind = "run" /\ o.intent = "reschedule_meeting"
\* the meeting reference the turn's text holds
ReferenceOf(o) == _extract_meeting_reference(Texts[o.input.user_input])
\* the turn's extraction gave a new start time
NewTimeResolved(o) == ~IsNone(o.request) /\ ~IsNone(Val(o.request).start_time)

\* C31: a reschedule turn that extracts no meeting reference asks for it,
\* makes no calendar call and leaves pending_booking as it was; one that
\* extracts a reference but no new start time stores a pending reschedule
\* marker that holds the reference, asks for the new time and makes no
\* calendar call.
C31_RescheduleAsksForWhatIsMissing ==
    [][IsRescheduleTurn(obs') =>
          /\ IsNone(ReferenceOf(obs')) =>
                /\ obs'.response.msg = "reschedule_ask_which"
                /\ obs'.log = <<>>
                /\ context'.pending_booking = context.pending_booking
          /\ (/\ ~IsNone(ReferenceOf(obs'))
              /\ ~IsNone(obs'.request)
              /\ IsNone(Val(obs'.request).start_time)) =>
                /\ obs'.response.msg = "reschedule_ask_time"
                /\ obs'.log = <<>>
                /\ context'.pending_booking
                      = Some(PendingReschedule(Val(ReferenceOf(obs'))))]_vars

\* C32: in a reschedule turn with a reference and a resolved new time, when
\* check_availability at the new time is true reschedule_event is called
\* exactly once and the success message is returned exactly when it returned
\* true; when it is false reschedule_event is not called, the alternatives are
\* searched as for "flexible" (7 days, the later days in steps of 60 minutes)
\* whatever flexibility was extracted, and at most 3 of them are presented.
C32_RescheduleMovesOrOffers ==
    [][(/\ IsRescheduleTurn(obs')
        /\ ~IsNone(ReferenceOf(obs'))
        /\ NewTimeResolved(obs')) =>
          LET log == obs'.log
          IN /\ log # <<>> /\ log[1].op = "check"
             /\ log[1].start = Val(Val(obs'.request).start_time)
             /\ log[1].result =>
                   /\ Cardinality(Calls(obs', "reschedule")) = 1
                   /\ Calls(obs', "suggest") = {}
                   /\ \A i \in Calls(obs', "reschedule") :
                         log[i].result <=> obs'.response.msg = "reschedule_done"
             /\ ~log[1].result =>
                   /\ Calls(obs', "reschedule") = {}
                   /\ Len(log) >= 2 /\ log[2].op = "suggest"
                   /\ ~IsNone(obs'.alternatives) =>
                         /\ obs'.response.shown = Take(Val(obs'.alternatives), 3)
                         /\ \A i \in 3..Len(log) :
                               /\ DayOf(log[i].start) - DayOf(log[2].start) \in 0..6
                               /\ (/\ i > 3
                                   /\ DayOf(log[i].start) = DayOf(log[i - 1].start)
                                   /\ DayOf(log[i].start) > DayOf(log[2].start)) =>
                                     log[i].start = log[i - 1].start + Minutes(60)]_vars

\* a conflict whose extraction said rigid, searched past the requested day
C32_Witness ==
    /\ IsRescheduleTurn(obs)
    /\ obs.input.oracle.extraction.flexibility = <<"v", "rigid">>
    /\ ~IsNone(obs.alternatives)
    /\ Len(obs.response.shown) = 3
    /\ Calls(obs, "reschedule") = {}
    /\ \E i \in 4..Len(obs.log) :
          /\ DayOf(obs.log[i].start) = DayOf(obs.log[i - 1].start)
          /\ DayOf(obs.log[i].start) > DayOf(obs.log[2].start)

\* a new time that was free and a reschedule_event that returned false
C32_WitnessMoveFailed ==
    /\ IsRescheduleTurn(obs)
    /\ obs.response.msg = "reschedule_failed"
    /\ \E i \in Calls(obs, "reschedule") : ~obs.log[i].result

\* the text of the turn names a duration
NamesDuration(text) ==
    \/ ~MatchAmount(text, {"hour", "hr"}).none
    \/ ~MatchAmount(text, {"minute", "min"}).none
    \/ ~MatchHoursMinutes(text).none

\* C38: when a reschedule turn moves an event and the text names no duration,
\* the moved event keeps its duration: its new end is the new start plus the
\* original end minus the original start.
C38_MovedEventKeepsItsDuration ==
    [][(/\ IsRescheduleTurn(obs')
        /\ ~NamesDuration(Texts[obs'.input.user_input])
        /\ \E i \in Calls(obs', "reschedule") : obs'.log[i].result) =>
          \A before \in calendar, after \in calendar' :
              (before.id = after.id /\ before # after) =>
                  after.end - after.start = before.end - before.start]_vars

IsCancelTurn(o) == o.kind = "run" /\ o.intent = "cancel_meeting"

\* C35: a cancel turn calls cancel_event at most once and only with the
\* reference the ordered patterns extracted (the first pattern that matches
\* wins: a clock time before a day word before "meeting with" before a named
\* meeting); without a reference it asks which meeting and makes no calendar
\* call; its message is the success message exactly when cancel_event
\* returned true and the could-not-find message when it returned false; and
\* it leaves pending_booking as it was.
C35_CancelOnlyWhatWasReferred ==
    [][(turns' = turns + 1 /\ IsCancelTurn(obs')) =>
        LET text == Texts[obs'.input.user_input]
            ref == ReferenceOf(obs')
            calls == Calls(obs', "cancel")
            msg == obs'.response.msg
        IN /\ Cardinality(calls) <= 1
           /\ calls # {} => ~IsNone(ref)
           /\ IsNone(ref) => obs'.log = <<>> /\ msg = "cancel_ask_which"
           /\ \A i \in calls : /\ obs'.log[i].result <=> msg = "cancel_done"
                               /\ ~obs'.log[i].result => msg = "cancel_not_found"
           /\ msg \in {"cancel_done", "cancel_not_found"} => calls # {}
           /\ context'.pending_booking = context.pending_booking
           \* "move the 10:00 meeting to tomorrow at 2pm": the clock time wins
           /\ text = Texts[5] => ref = Some(ClockRef(10, 0, "", FALSE))
           /\ text = Texts[4] => ref = Some(WordsRef(<<W("team"), W("meeting")>>))
           /\ text = Texts[6] => ref = None]_vars

\* a cancel turn on a pending booking removed the referred meeting
C35_Witness ==
    /\ IsCancelTurn(obs)
    /\ obs.response.msg = "cancel_done"
    /\ Cardinality(Calls(obs, "cancel")) = 1
    /\ obs.input.user_input = 5
    /\ ~IsNone(context.pending_booking)

\* a cancel turn that found no meeting to remove
C35_WitnessNotFound ==
    /\ IsCancelTurn(obs)
    /\ obs.response.msg = "cancel_not_found"

IsAvailabilityTurn(o) == o.kind = "run" /\ o.intent = "check_availability"
\* the number of slots `step` apart from start to before end
SlotCount(start, end, step) ==
    IF end > start THEN (end - start + step - 1) \div step ELSE 0
\* one slot per hour of tomorrow's business hours
TomorrowSlots(ctx, now) ==
    [k \in 1..SlotCount(ctx.business_hours_start, ctx.business_hours_end, Hours(1)) |->
        Days(DayOf(now) + 1) + ctx.business_hours_start + Hours(k - 1)]
\* one slot every 2 hours of the business hours of Monday to Friday of the
\* week after now's
NextWeekSlots(ctx, now) ==
    LET perDay == SlotCount(ctx.business_hours_start, ctx.business_hours_end, Hours(2))
        monday == DayOf(now) + 7 - Weekday(now)
    IN [k \in 1..(5 * perDay) |->
           Days(monday + ((k - 1) \div perDay)) + ctx.business_hours_start
               + Hours(2 * ((k - 1) % perDay))]
ExpectedSlots(ctx, now, text) ==
    IF \E i \in DOMAIN text : text[i] = W("tomorrow") THEN TomorrowSlots(ctx, now)
    ELSE IF \E i \in 1..(Len(text) - 1) : text[i] = W("next") /\ text[i + 1] = W("week")
    THEN NextWeekSlots(ctx, now)
    ELSE <<>>

\* C36: a check-availability turn builds its candidates from the text: with
\* "tomorrow", one slot per hour of the next day from business_hours_start
\* while before business_hours_end; else with "next week", one slot every 2
\* hours of Monday to Friday of the following week; otherwise none and no
\* calendar call.  It reports the candidates check_availability said were
\* free, in order, at most 10, and the none-found message when none is free.
C36_AvailabilitySlotsFromText ==
    [][(turns' # turns /\ IsAvailabilityTurn(obs') /\ ValidTimezone(context)) =>
        LET expected == ExpectedSlots(context, clock, Texts[obs'.input.user_input])
            free == FreeOf(obs'.log, 1)
        IN /\ [i \in DOMAIN obs'.log |-> obs'.log[i].start] = expected
           /\ \A i \in DOMAIN obs'.log : obs'.log[i].op = "check"
           /\ obs'.response.shown = Take(free, 10)
           /\ (expected # <<>> /\ free = <<>>) =>
                 obs'.response.msg = "availability_none"
           /\ free # <<>> => obs'.response.msg = "availability_slots"]_vars

\* C22: every event a booking turn creates lies inside the business hours:
\* its start is not before business_hours_start and its end, the start plus
\* the duration, is not after business_hours_end.
C22_CreatedInsideBusinessHours ==
    IsBookingTurn(obs) =>
        \A i \in Calls(obs, "create") :
            obs.log[i].result =>
                /\ TimeOfDay(obs.log[i].start) >= context.business_hours_start
                /\ ~IsNone(obs.log[i].dur)
                /\ TimeOfDay(obs.log[i].start) + Minutes(Val(obs.log[i].dur))
                       <= context.business_hours_end

\* C29: a booking turn whose check_availability is false and whose search
\* finds alternatives stores the request as the pending booking, over any
\* earlier one, presents no more than the first 3 alternatives, in the order
\* of the search, and does not call create_event.
C29_ConflictKeepsRequestPending ==
    [][(FirstCheckGave(obs', FALSE)
          /\ ~IsNone(obs'.alternatives) /\ Val(obs'.alternatives) # <<>>) =>
          /\ context'.pending_booking = Some(PendingRequest(Val(obs'.request)))
          /\ obs'.response.msg = "time_conflict_with_alternatives"
          /\ Len(obs'.response.shown) <= 3
          /\ obs'.response.shown
                = SubSeq(Val(obs'.alternatives), 1, Len(obs'.response.shown))
          /\ Len(obs'.response.shown) = 3 \/ obs'.response.shown = Val(obs'.alternatives)
          /\ Calls(obs', "create") = {}]_vars

\* a conflict with more than 3 alternatives, with something pending before
C29_Witness ==
    /\ FirstCheckGave(obs, FALSE)
    /\ ~IsNone(obs.alternatives)
    /\ Len(Val(obs.alternatives)) > 3
    /\ Len(context.conversation_history) = 2
    /\ context.conversation_history[1].assistant = Some("reschedule_ask_time")
    /\ context.pending_booking = Some(PendingRequest(Val(obs.request)))

OutsideHours(ctx, dt) ==
    \/ TimeOfDay(dt) < ctx.business_hours_start
    \/ TimeOfDay(dt) > ctx.business_hours_end

\* C30: a booking turn whose start time is outside the business hours makes
\* no call to the calendar, leaves pending_booking as it was and answers with
\* the outside-business-hours message.
C30_OutsideHoursTouchesNothing ==
    [][(/\ IsBookingTurn(obs') /\ ~obs'.raised
        /\ ~IsNone(obs'.request)
        /\ ~IsNone(Val(obs'.request).start_time)
        /\ OutsideHours(context, Val(Val(obs'.request).start_time))) =>
          /\ obs'.log = <<>>
          /\ calendar' = calendar /\ events_cache' = events_cache
          /\ context'.pending_booking = context.pending_booking
          /\ obs'.response.msg = "outside_business_hours"]_vars

\* an outside-hours request while something is pending
C30_Witness ==
    /\ IsBookingTurn(obs)
    /\ obs.response.msg = "outside_business_hours"
    /\ ~IsNone(context.pending_booking)

-----------------------------------------------------------------------------
(* SpecParse: the extraction functions applied to one text.  The process   *)
(* has run for some time and the preferences may have been set; then one   *)
(* of the functions is called.                                             *)

\* the clock has advanced ParseSteps times by ParseStride, and 0 or
\* ParseOffset seconds more
ParseSteps == 24
ParseStride == Hours(7)
ParseOffset == 30
MaxParses == 1

ParseClocks ==
    {StartClock + k * ParseStride + s : k \in 0..ParseSteps, s \in {0, ParseOffset}}
\* the contexts POST /preferences can leave
ParseContexts ==
    {set_user_preferences(InitialContext, timezone, hours, default_duration) :
        timezone \in {None, Some("Mars/Olympus")}, hours \in SearchHours,
        default_duration \in {None, Some(30)}}

WeekdayWords == {"monday", "tuesday", "wednesday", "thursday", "friday", "saturday",
                 "sunday", "mon", "tue", "wed", "thu", "fri", "sat", "sun"}
ClockNumerals == {Num(3, NoMinute, "pm"), Num(9, NoMinute, ""), Num(10, 30, ""),
                  Num(12, NoMinute, "am"), Num(11, 59, "pm"), Num(13, NoMinute, "pm")}
\* "<weekday> at <clock>"
WeekdayPhrases == {<<W(d), W("at"), n>> : d \in WeekdayWords, n \in ClockNumerals}

\* "next <weekday>"
NextPhrases == {<<W("next"), W(d)>> : d \in WeekdayWords}

\* a call for 0 minutes at 2pm
CallFor0Minutes == <<W("a"), W("call"), W("for"), Num(0, NoMinute, ""), W("minutes"),
                     W("at"), Num(2, NoMinute, "pm")>>
OtherPhrases == {
    \* book a meeting at 3pm
    <<W("book"), W("a"), W("meeting"), W("at"), Num(3, NoMinute, "pm")>>,
    \* monday at 30 or 3 pm
    <<W("monday"), W("at"), Num(30, NoMinute, ""), W("or"), Num(3, NoMinute, ""),
      W("pm")>>,
    \* book a 1 hour interview call in 30 minutes
    <<W("book"), W("a"), Num(1, NoMinute, ""), W("hour"), W("interview"), W("call"),
      W("in"), Num(30, NoMinute, ""), W("minutes")>>,
    \* standup roughly at the end of the week
    <<W("standup"), W("roughly"), W("at"), W("the"), W("end"), W("of"), W("the"),
      W("week")>>,
    \* appointment 2 h 30 m beginning of week
    <<W("appointment"), Num(2, NoMinute, ""), W("h"), Num(30, NoMinute, ""), W("m"),
      W("beginning"), W("of"), W("week")>>,
    \* recall me within 2 hrs
    <<W("recall"), W("me"), W("within"), Num(2, NoMinute, ""), W("hrs")>>,
    \* tomorrow at 25
    <<W("tomorrow"), W("at"), Num(25, NoMinute, "")>>,
    CallFor0Minutes,
    \* hello
    <<W("hello")>> }
ParseTexts ==
    WeekdayPhrases \cup NextPhrases \cup OtherPhrases
        \cup {CallFor45Min, NextWeekSameTime, FlexibleNextMonday}

\* the texts and the oracle's replies _extract_booking_details is given
ExtractTexts == {CallFor45Min, CallFor0Minutes, <<W("hello")>>}
ExtractReplies ==
    { NoJson("error"), NoJson("not_json"), NoJson("not_object"),
      CallAtTwo,
      Json(<<>>, <<"iso_offset", FreeSlot>>, <<"v", 30>>, <<"v", "flexible">>),
      Json(<<>>, <<"text">>, <<"v", 0>>, <<>>),
      Json(<<"null">>, <<"null">>, <<"null">>, <<"null">>),
      Json(<<>>, <<>>, <<"v", 0 - 15>>, <<>>) }

\* around the two ends of the business hours, on the second day
HoursInstants ==
    {Days(1) + edge + d : edge \in {context.business_hours_start,
                                    context.business_hours_end},
                          d \in {0 - 3600, 0 - 1, 0, 1, 3600}}

InitParse ==
    /\ clock \in ParseClocks
    /\ calendar = {}
    /\ events_cache = <<>>
    /\ cache_expiry = <<>>
    /\ cache_meta = <<>>
    /\ context \in ParseContexts
    /\ pc = [t \in Threads |-> "idle"]
    /\ frame = [t \in Threads |-> NoFrame]
    /\ turns = 0
    /\ last_request_times = <<>>
    /\ _agent_instance = None
    /\ _agent_error = None
    /\ obs = [kind |-> "init", log |-> <<>>]

\* what the call gave (ghost)
Parsed(r, text) ==
    [kind |-> "parse", text |-> text, raised |-> r.raised, value |-> r.value,
     log |-> <<>>]
Extracted(r, text) ==
    [kind |-> "fallback", text |-> text, raised |-> r.raised, request |-> r.request,
     log |-> <<>>]

\* the replies of the intent call: every Intent value, as it is, capitalised
\* or in capitals, between paddings of white space, and texts that are no value
Pads == {<<>>, <<" ">>, <<"\n", " ">>}
Capitals(s) ==
    [i \in DOMAIN s |->
        IF \E k \in DOMAIN LowerCase : LowerCase[k] = s[i]
        THEN UpperCase[CHOOSE k \in DOMAIN LowerCase : LowerCase[k] = s[i]]
        ELSE s[i]]
Capitalised(s) == <<Capitals(s)[1]>> \o Tail(s)
Spellings(name) == {Spelling[name], Capitalised(Spelling[name]), Capitals(Spelling[name])}
Padded(name) == {l \o v \o r : l \in Pads, v \in Spellings(name), r \in Pads}
NoIntent ==
    { <<>>, <<" ">>,
      <<"b", "o", "o", "k", " ", "m", "e", "e", "t", "i", "n", "g">>,
      <<"g", "r", "e", "e", "t", "i", "n", "g", ".">>,
      <<"I", "n", "t", "e", "n", "t", ":", " ", "g", "r", "e", "e", "t", "i", "n", "g">>,
      <<"u", "n", "c", "l", "e", "a", "r", "?">> }
RawReplies ==
    {Failure} \cup {Content(c) : c \in NoIntent \cup UNION {Padded(n) : n \in Intent}}

Recognized(raw, result) ==
    [kind |-> "intent", raw |-> raw, result |-> result, raised |-> FALSE, log |-> <<>>]

RecognizeIntentOp ==
    /\ turns < MaxParses
    /\ \E raw \in RawReplies : obs' = Recognized(raw, Recognize(raw))
    /\ turns' = turns + 1
    /\ UNCHANGED <<clock, svcVars, context, pc, frame, last_request_times, routeAgent>>

Detailed(r, text, reply) ==
    [kind |-> "extract", text |-> text, reply |-> reply, raised |-> r.raised,
     request |-> r.request, asked |-> r.asked, fallback |-> r.fallback, log |-> <<>>]

ExtractBookingDetailsOp ==
    /\ turns < MaxParses
    /\ \E text \in ExtractTexts, reply \in ExtractReplies :
          obs' = Detailed(_extract_booking_details(context, clock, text, reply),
                          text, reply)
    /\ turns' = turns + 1
    /\ UNCHANGED <<clock, svcVars, context, pc, frame, last_request_times, routeAgent>>

ParseTimeAdvancedOp ==
    /\ turns < MaxParses
    /\ \E text \in ParseTexts :
          obs' = Parsed(_parse_time_advanced(context, clock, text), text)
    /\ turns' = turns + 1
    /\ UNCHANGED <<clock, svcVars, context, pc, frame, last_request_times, routeAgent>>

FallbackParsingOp ==
    /\ turns < MaxParses
    /\ \E text \in ParseTexts :
          obs' = Extracted(_fallback_parsing(context, clock, text), text)
    /\ turns' = turns + 1
    /\ UNCHANGED <<clock, svcVars, context, pc, frame, last_request_times, routeAgent>>

CheckBusinessHoursOp ==
    /\ turns < MaxParses
    /\ \E dt \in HoursInstants :
          obs' = [kind |-> "hours", dt |-> dt,
                  result |-> _check_business_hours(context, dt), log |-> <<>>]
    /\ turns' = turns + 1
    /\ UNCHANGED <<clock, svcVars, context, pc, frame, last_request_times, routeAgent>>

NextParse ==
    \/ RecognizeIntentOp
    \/ ExtractBookingDetailsOp
    \/ ParseTimeAdvancedOp
    \/ FallbackParsingOp
    \/ CheckBusinessHoursOp

SpecParse == InitParse /\ [][NextParse]_vars

\* pattern i matches the text and its parser gives a timestamp
Resolves(ctx, clk, text, i) ==
    /\ ~PatternMatch(text, i).none
    /\ ~PatternParser(ctx, clk, i, PatternMatch(text, i)).raised
    /\ ~IsNone(PatternParser(ctx, clk, i, PatternMatch(text, i)).value)
FirstResolving(ctx, clk, text) ==
    Leftmost({i \in 1..PatternCount : Resolves(ctx, clk, text, i)})

\* C12: _parse_time_advanced returns what the first pattern of the list that
\* matches the text and resolves to a timestamp gives; a pattern that matches
\* but does not resolve (its parser raises, or the word is no weekday name)
\* counts as no match; the result is null only when no pattern does both.
C12_FirstResolvingPatternWins ==
    (obs.kind = "parse" /\ ~obs.raised) =>
        obs.value =
            IF FirstResolving(context, clock, obs.text) = 0 THEN None
            ELSE PatternParser(context, clock, FirstResolving(context, clock, obs.text),
                               PatternMatch(obs.text,
                                   FirstResolving(context, clock, obs.text))).value

\* C13: a text that holds "next week same time", and no form listed before it
\* that resolves, is resolved to now + 7 days at the same wall-clock time.
C13_NextWeekSameTime ==
    (obs.kind = "parse" /\ ~obs.raised
        /\ ~MatchNextWeekSameTime(obs.text).none
        /\ \A i \in 1..(PatternCount - 1) : ~Resolves(context, clock, obs.text, i)) =>
        obs.value = Some(clock + Days(7))

\* a text is on the clock when its hour is one of the 12-hour clock with
\* am/pm and of the 24-hour clock without, and its minute is below 60
ValidClockTime(n) ==
    /\ IF n.ap = "" THEN n.h \in 0..23 ELSE n.h \in 1..12
    /\ n.m \in {NoMinute} \cup (0..59)
\* H:MM am/pm as seconds since midnight
WallSeconds(n) ==
    Hours(IF n.ap = "pm" THEN (n.h % 12) + 12
          ELSE IF n.ap = "am" THEN n.h % 12 ELSE n.h)
        + Minutes(IF n.m = NoMinute THEN 0 ELSE n.m)
\* value is the next instant after `now` that falls on the weekday at the
\* time of day: today when that is still to come, otherwise within 7 days
OnWeekdayAfter(value, weekday, tod, now) ==
    /\ ~IsNone(value)
    /\ Weekday(Val(value)) = weekday
    /\ TimeOfDay(Val(value)) = tod
    /\ Val(value) > now
    /\ Val(value) <= now + Days(7)
    /\ DayOf(Val(value)) - DayOf(now) =
          IF Weekday(now) = weekday
          THEN (IF tod > TimeOfDay(now) THEN 0 ELSE 7)
          ELSE (weekday - Weekday(now)) % 7

\* C14: for every now, weekday name W and clock time H:MM, "W at H[:MM][am/pm]"
\* resolves to W at H:MM, after now and at most 7 days ahead: today when W is
\* today and H:MM is still to come, 7 days ahead when W is today and H:MM is
\* now or past, the next W otherwise.
C14_WeekdayTimeRollsForward ==
    (obs.kind = "parse" /\ ~obs.raised /\ obs.text \in WeekdayPhrases
        /\ ValidClockTime(obs.text[3])) =>
        OnWeekdayAfter(obs.value, WeekdayNumber(obs.text[1].s),
                       WallSeconds(obs.text[3]), clock)

\* the weekday is today and the time is exactly now: the date is 7 days ahead
C14_Witness ==
    /\ obs.kind = "parse"
    /\ obs.text \in WeekdayPhrases
    /\ ValidClockTime(obs.text[3])
    /\ WeekdayNumber(obs.text[1].s) = Weekday(clock)
    /\ WallSeconds(obs.text[3]) = TimeOfDay(clock)
    /\ obs.value = Some(clock + Days(7))

\* the number datetime.weekday() gives the day a name or its first three
\* letters stand for
DayNumber ==
    [monday |-> 0, tuesday |-> 1, wednesday |-> 2, thursday |-> 3, friday |-> 4,
     saturday |-> 5, sunday |-> 6, mon |-> 0, tue |-> 1, wed |-> 2, thu |-> 3,
     fri |-> 4, sat |-> 5, sun |-> 6]

\* C33: for every now and every weekday name W, "next W" resolves to a date
\* 1 to 7 days after today that falls on W, 7 days ahead when today is W and
\* never today, at the time the business hours start.
C33_NextWeekdayIsAfterToday ==
    (obs.kind = "parse" /\ ~obs.raised /\ obs.text \in NextPhrases) =>
        /\ ~IsNone(obs.value)
        /\ DayOf(Val(obs.value)) - DayOf(clock) \in 1..7
        /\ Weekday(Val(obs.value)) = DayNumber[obs.text[2].s]
        /\ Weekday(clock) = DayNumber[obs.text[2].s] =>
              DayOf(Val(obs.value)) = DayOf(clock) + 7
        /\ TimeOfDay(Val(obs.value)) = context.business_hours_start

\* "next W" said on a W: the date is 7 days ahead
C33_Witness ==
    /\ obs.kind = "parse"
    /\ obs.text \in NextPhrases
    /\ Weekday(clock) = DayNumber[obs.text[2].s]
    /\ TimeOfDay(clock) < context.business_hours_start
    /\ obs.value = Some(Days(DayOf(clock) + 7) + context.business_hours_start)

\* C34: every timestamp _parse_time_advanced returns is not before the now
\* at which it was computed, for every weekday and time of day of now and
\* every phrase; "end of week" gives a Friday at the end of the business hours
\* that is not in the past, also on a Friday after the business hours.
C34_ParsedTimesNotInThePast ==
    (obs.kind = "parse" /\ ~obs.raised /\ ~IsNone(obs.value)) =>
        Val(obs.value) >= clock

\* the label of the first of the four words the text holds
FirstLabel(text) ==
    LET words == <<"interview", "call", "appointment", "standup">>
        labels == <<"Interview", "Call", "Appointment", "Standup">>
        first == Leftmost({i \in 1..4 : Mentions(text, words[i])})
    IN IF first = 0 THEN "Meeting" ELSE labels[first]
\* the amount of the first of the three duration forms the text holds
FirstDuration(text, default) ==
    IF ~MatchAmount(text, {"hour", "hr"}).none
    THEN 60 * MatchAmount(text, {"hour", "hr"}).hour
    ELSE IF ~MatchAmount(text, {"minute", "min"}).none
    THEN MatchAmount(text, {"minute", "min"}).hour
    ELSE IF ~MatchHoursMinutes(text).none
    THEN 60 * MatchHoursMinutes(text).hour + MatchHoursMinutes(text).minute
    ELSE default

\* C16: _fallback_parsing takes the summary from the first of interview, call,
\* appointment, standup in the text (else "Meeting"), the duration from the
\* first duration form that matches (hours, minutes, h/m; else the context
\* default), and is "flexible" exactly when the text holds flexible, around or
\* roughly; "book a call for 45 min tomorrow at 2pm" gives "Call", 45,
\* tomorrow 14:00, "rigid".
C16_FallbackFirstMatch ==
    (obs.kind = "fallback" /\ ~obs.raised) =>
        /\ obs.request.summary = Some(FirstLabel(obs.text))
        /\ obs.request.duration =
              Some(FirstDuration(obs.text, context.preferred_meeting_duration))
        /\ obs.request.flexibility = "flexible" <=>
              \E word \in {"flexible", "around", "roughly"} : Mentions(obs.text, word)
        /\ obs.request.flexibility \in {"flexible", "rigid"}
        /\ obs.text = CallFor45Min =>
              /\ obs.request.summary = Some("Call")
              /\ obs.request.duration = Some(45)
              /\ obs.request.start_time = Some(At(DayOf(clock) + 1, 14, 0))
              /\ obs.request.flexibility = "rigid"

\* the example, under a context default that is not 45
C16_Witness ==
    /\ obs.kind = "fallback"
    /\ ~obs.raised
    /\ obs.text = CallFor45Min
    /\ obs.request.duration = Some(45)
    /\ context.preferred_meeting_duration = 30

\* C17: _check_business_hours(t) is true exactly when the time of day of t is
\* from business_hours_start to business_hours_end, both ends included: true
\* at either end, false one instant before the start and after the end.
C17_BusinessHoursInclusive ==
    obs.kind = "hours" =>
        /\ obs.result <=> /\ context.business_hours_start <= TimeOfDay(obs.dt)
                          /\ TimeOfDay(obs.dt) <= context.business_hours_end
        /\ TimeOfDay(obs.dt) \in {context.business_hours_start,
                                  context.business_hours_end} => obs.result
        /\ TimeOfDay(obs.dt) \in {context.business_hours_start - 1,
                                  context.business_hours_end + 1} => ~obs.result

\* asked at the very end of the business hours
C17_Witness ==
    /\ obs.kind = "hours"
    /\ TimeOfDay(obs.dt) = context.business_hours_end
    /\ obs.result

\* C21: every request the extraction gives, from the oracle's JSON or from the
\* fallback, has a duration above 0, whatever the reply, the text (one that
\* names 0 minutes included) and the context's default duration.
C21_DurationPositive ==
    (obs.kind \in {"extract", "fallback"} /\ ~obs.raised) =>
        /\ ~IsNone(obs.request.duration)
        /\ Val(obs.request.duration) > 0

\* C23: _recognize_intent returns the Intent whose value the oracle's reply
\* is once the white space around it is cut and its letters are lowered; every
\* other reply, and a failure of the call, gives Unclear; nothing is raised
\* and the result is always a member of Intent.
C23_IntentOfTrimmedLoweredReply ==
    obs.kind = "intent" =>
        /\ ~obs.raised
        /\ obs.result \in Intent
        /\ \A name \in Intent :
              (obs.raw.kind = "content" /\ obs.raw.chars \in Padded(name)) =>
                  obs.result = name
        /\ (obs.raw.kind = "error"
              \/ \A name \in Intent : obs.raw.chars \notin Padded(name)) =>
                  obs.result = "unclear"

\* a reply in capitals between white space is recognized
C23_Witness ==
    /\ obs.kind = "intent"
    /\ obs.raw.kind = "content"
    /\ obs.raw.chars = <<" ">> \o Capitals(Spelling["cancel_meeting"]) \o <<"\n", " ">>
    /\ obs.result = "cancel_meeting"

\* the start_time member of a reply is a date the program can parse
IsDate(st) == st # <<>> /\ st[1] \in {"iso", "iso_offset"}

\* C24: in _extract_booking_details a reply that is not JSON, or any other
\* failure of the extraction, passes control to the fallback extractor; a JSON
\* reply whose start_time is no timestamp gives a request with a null start
\* time, neither an error nor a fallback; a start_time without a zone is
\* localized to the context's zone.
C24_ExtractionFailSoft ==
    obs.kind = "extract" =>
        /\ (obs.reply.kind # "json" \/ ~ValidTimezone(context)) =>
              /\ obs.fallback
              /\ obs.raised = _fallback_parsing(context, clock, obs.text).raised
              /\ obs.request = _fallback_parsing(context, clock, obs.text).request
        /\ (obs.reply.kind = "json" /\ ValidTimezone(context)) =>
              /\ ~obs.raised /\ ~obs.fallback /\ obs.asked
              /\ ~IsDate(obs.reply.start_time) => IsNone(obs.request.start_time)
              /\ IsDate(obs.reply.start_time) =>
                    obs.request.start_time = Some(obs.reply.start_time[2])
              /\ (IsDate(obs.reply.start_time) /\ obs.reply.start_time[1] = "iso") =>
                    obs.request.has_zone

\* a JSON reply whose start_time is text that is no date
C24_Witness ==
    /\ obs.kind = "extract"
    /\ obs.reply.kind = "json"
    /\ obs.reply.start_time = <<"text">>
    /\ ~obs.fallback
    /\ IsNone(obs.request.start_time)

-----------------------------------------------------------------------------
(* SpecHttp: the routes.  Each request is served by a coroutine that hands *)
(* agent.run to a worker thread (asyncio.to_thread); the threads share the *)
(* one agent of the process and run() takes no lock.  A thread's run() is  *)
(* modelled in four steps, cut where it waits for the oracle or the        *)
(* calendar.                                                               *)

\* _RATE_LIMIT_SECONDS = 60 / _REQUESTS_PER_MINUTE
RequestsPerMinute == 60
RateLimitSeconds == 60 \div RequestsPerMinute

\* the wrapper looks for a Request among the positional arguments; FastAPI
\* passes the route's arguments by keyword, so the client is "default"
ClientIp == "default"

\* _last_request_times.get(client_ip, 0)
LastRequest == IF ClientIp \in DOMAIN last_request_times
               THEN last_request_times[ClientIp] ELSE 0

HttpTurns ==
    { Turn(1, Oracle("book_meeting", CallAtTwo, "ok"), {}),
      Turn(2, Oracle("book_meeting", Json(<<>>, <<"null">>, <<>>, <<>>), "ok"), {}) }
HealthTurns ==
    { Turn(6, Oracle("greeting", NoJson("error"), "ok"), {}),
      Turn(6, Oracle("error", NoJson("error"), "error"), {}) }

InRun == {"appended", "classified", "handled"}

\* asyncio.to_thread(agent.run, message): a free worker is given the call
Submit(t, input) ==
    /\ pc[t] = "idle"
    /\ turns < MaxTurns
    /\ turns' = turns + 1
    /\ pc' = [pc EXCEPT ![t] = "submitted"]
    /\ frame' = [frame EXCEPT ![t] = [NoFrame EXCEPT !.input = input]]

\* POST /book behind rate_limit(): passes when a second has gone by since the
\* last request that passed
BookRoute(t) ==
    /\ clock - LastRequest >= RateLimitSeconds
    /\ last_request_times' = Put(last_request_times, ClientIp, clock)
    /\ \E input \in HttpTurns : Submit(t, input)
    /\ UNCHANGED <<clock, svcVars, context, routeAgent, obs>>

\* POST /book turned away with 429
BookRejected ==
    /\ clock - LastRequest < RateLimitSeconds
    /\ obs' = [kind |-> "429", log |-> <<>>]
    /\ UNCHANGED <<clock, svcVars, agentVars, last_request_times, routeAgent>>

\* GET /agent/health: no rate limit, runs agent.run("hello")
HealthRoute(t) ==
    /\ \E input \in HealthTurns : Submit(t, input)
    /\ UNCHANGED <<clock, svcVars, context, last_request_times, routeAgent, obs>>

\* run(): the turn is appended to the history, the history cut
Enter(t) ==
    /\ pc[t] = "submitted"
    /\ context' = Truncate(AppendTurn(context, clock, frame[t].input.user_input))
    /\ pc' = [pc EXCEPT ![t] = "appended"]
    /\ UNCHANGED <<clock, svcVars, frame, turns, last_request_times, routeAgent, obs>>

\* run(): intent = self._recognize_intent(user_input)
Classify(t) ==
    /\ pc[t] = "appended"
    /\ frame' = [frame EXCEPT ![t].intent = _recognize_intent(frame[t].input.oracle.intent)]
    /\ pc' = [pc EXCEPT ![t] = "classified"]
    /\ UNCHANGED <<clock, svcVars, context, turns, last_request_times, routeAgent, obs>>

\* the handler returned d
HandlerReturn(t, d) ==
    /\ Commit(d.outcome.S)
    /\ context' = d.outcome.ctx
    /\ frame' = [frame EXCEPT ![t].response = d.outcome.response,
                              ![t].raised = d.raised]
    /\ obs' = [kind |-> "handled", log |-> d.outcome.S.log]

\* run(): the branch for the intent
Handle(t) ==
    /\ pc[t] = "classified"
    /\ HandlerReturn(t, Dispatch(context, Svc, clock, frame[t].intent,
                            Texts[frame[t].input.user_input], frame[t].input.oracle,
                            frame[t].input.fail))
    /\ pc' = [pc EXCEPT ![t] = "handled"]
    /\ UNCHANGED <<clock, turns, last_request_times, routeAgent>>

\* run(): the response is stored with the last entry of the history and
\* returned; after an exception the apology is returned and nothing stored
Store(t) ==
    /\ pc[t] = "handled"
    /\ context' = IF frame[t].raised THEN context
                  ELSE StoreResponse(context, frame[t].intent, frame[t].response)
    /\ pc' = [pc EXCEPT ![t] = "idle"]
    /\ frame' = [frame EXCEPT ![t] = NoFrame]
    /\ UNCHANGED <<clock, svcVars, turns, last_request_times, routeAgent, obs>>

\* a second passes
Second ==
    /\ clock < StartClock + MaxSeconds
    /\ clock' = clock + 1
    /\ UNCHANGED <<svcVars, agentVars, last_request_times, routeAgent, obs>>

NextHttp ==
    \/ \E t \in Threads : BookRoute(t)
    \/ BookRejected
    \/ \E t \in Threads : HealthRoute(t)
    \/ \E t \in Threads : Enter(t)
    \/ \E t \in Threads : Classify(t)
    \/ \E t \in Threads : Handle(t)
    \/ \E t \in Threads : Store(t)
    \/ Second

SpecHttp == Init /\ [][NextHttp]_vars

\* C9: the turns on the one context are strictly sequential: no run() starts
\* on it before the run() before it has returned.
C9_TurnsSequential ==
    Cardinality({t \in Threads : pc[t] \in InRun}) <= 1

\* C26: the response of a turn is stored as the assistant text of the history
\* entry that holds the user text of the same turn, also when two run() calls
\* interleave: no entry is given the response of another turn.
C26_ResponseStoredWithItsTurn ==
    [][\A t \in Threads :
          (pc[t] = "handled" /\ pc'[t] = "idle" /\ ~frame[t].raised) =>
              LET history == context'.conversation_history
                  entry == history[Len(history)]
              IN /\ history # <<>>
                 /\ entry.user = frame[t].input.user_input
                 /\ entry.assistant = Some(frame[t].response.msg)]_vars

-----------------------------------------------------------------------------
(* SpecAgent: get_agent, the dependency of every route.  It is a plain     *)
(* function, so FastAPI runs each call on a worker thread; the calls share *)
(* the module globals _agent_instance and _agent_error and take no lock.   *)
(* A call is cut where the constructor runs (it opens the calendar and the *)
(* language model) and between the assignment and the return.              *)

\* get_agent calls per behaviour
MaxAgentCalls == 4

\* ghost: the constructions so far, whether one has failed, the instances
\* returned so far and what the last call to finish gave (an instance or Http500)
NoCalls == [kind |-> "get_agent", log |-> <<>>, constructed |-> 0, failed |-> FALSE,
            returned |-> {}, result |-> None, after_failure |-> FALSE]
AgentCalls == IF obs.kind = "get_agent" THEN obs ELSE NoCalls

\* HTTPException(status_code=500, ...)
Http500 == 500

\* the call returned (an instance) or raised (HTTP 500)
GetAgentDone(t, calls, result) ==
    /\ pc' = [pc EXCEPT ![t] = "idle"]
    /\ obs' = [calls EXCEPT !.result = Some(result),
                            !.returned = IF result = Http500 THEN @ ELSE @ \cup {result}]

\* `if _agent_instance is None:` and `if _agent_error is not None:`
GetAgentCheck(t) ==
    /\ pc[t] = "idle"
    /\ turns < MaxAgentCalls
    /\ turns' = turns + 1
    /\ LET calls == [AgentCalls EXCEPT !.after_failure = AgentCalls.failed]
       IN IF ~IsNone(_agent_instance) THEN GetAgentDone(t, calls, Val(_agent_instance))
          ELSE IF ~IsNone(_agent_error) THEN GetAgentDone(t, calls, Http500)
          ELSE /\ pc' = [pc EXCEPT ![t] = "constructing"]
               /\ obs' = [calls EXCEPT !.result = None]
    /\ UNCHANGED <<clock, svcVars, context, frame, last_request_times, routeAgent>>

\* `_agent_instance = AdvancedBookingAgent()`, or the except branch
GetAgentConstruct(t) ==
    /\ pc[t] = "constructing"
    /\ \/ /\ _agent_instance' = Some(AgentCalls.constructed + 1)
          /\ obs' = [AgentCalls EXCEPT !.constructed = @ + 1, !.result = None]
          /\ pc' = [pc EXCEPT ![t] = "assigned"]
          /\ UNCHANGED _agent_error
       \/ /\ _agent_error' = Some("error")
          /\ GetAgentDone(t, [AgentCalls EXCEPT !.failed = TRUE], Http500)
          /\ UNCHANGED _agent_instance
    /\ UNCHANGED <<clock, svcVars, context, frame, turns, last_request_times>>

\* `return _agent_instance`
GetAgentReturn(t) ==
    /\ pc[t] = "assigned"
    /\ GetAgentDone(t, AgentCalls, Val(_agent_instance))
    /\ UNCHANGED <<clock, svcVars, context, frame, turns, last_request_times, routeAgent>>

NextAgent ==
    \/ \E t \in Threads : GetAgentCheck(t)
    \/ \E t \in Threads : GetAgentConstruct(t)
    \/ \E t \in Threads : GetAgentReturn(t)
    \/ Second

SpecAgent == Init /\ [][NextAgent]_vars

\* C39: across any interleaving of get_agent calls at most one
\* AdvancedBookingAgent is constructed and every call that succeeds returns
\* the same instance; once a construction has failed, no later call attempts
\* a construction and every later call fails with HTTP 500.
C39_OneAgentOrNone ==
    /\ [](obs.kind = "get_agent" =>
             /\ obs.constructed <= 1
             /\ Cardinality(obs.returned) <= 1)
    /\ [][\A t \in Threads :
             (pc[t] = "idle" /\ pc'[t] # pc[t] /\ AgentCalls.failed) =>
                 pc'[t] # "constructing"]_vars
    /\ [][(obs'.kind = "get_agent" /\ obs'.after_failure /\ ~IsNone(obs'.result)
             /\ turns' # turns) =>
                 obs'.result = Some(Http500)]_vars

\* get_conversation_summary
get_conversation_summary(ctx) ==
    [last_intent |-> ctx.last_intent,
     has_pending_booking |-> ~IsNone(ctx.pending_booking),
     conversation_length |-> Len(ctx.conversation_history),
     user_timezone |-> ctx.user_timezone,
     business_hours |-> <<ctx.business_hours_start, ctx.business_hours_end>>]

\* thread t took a step of the run() that GET /agent/health started
HealthStep(t) ==
    /\ pc'[t] # pc[t]
    /\ frame[t].input \in HealthTurns \/ frame'[t].input \in HealthTurns

\* C40: GET /agent/health leaves the shared conversation context unchanged:
\* conversation_history, last_intent and pending_booking are the same after
\* the request as before it, and get_conversation_summary reports the same
\* values.
C40_HealthLeavesContextUnchanged ==
    [][(\E t \in Threads : HealthStep(t)) =>
          /\ context'.conversation_history = context.conversation_history
          /\ context'.last_intent = context.last_intent
          /\ context'.pending_booking = context.pending_booking
          /\ get_conversation_summary(context') = get_conversation_summary(context)]_vars

====
